---- MODULE Spec2Model ----
(***************************************************************************)
(* A model of revisor-novo: the formatting-preserving patcher              *)
(* (word_utils.py), the block builder (document_processor.py), the review  *)
(* client's retry loop (api_client.py) and the parallel pipeline of        *)
(* SmartDocumentProcessor (smart_document_processor.py).                   *)
(*                                                                         *)
(* A text is a sequence of characters (one-character strings); a marker    *)
(* such as "(Fonte" is one element of such a sequence.  Each component has *)
(* its own specification over its own variables; the other variables stay  *)
(* at their idle values.                                                   *)
(***************************************************************************)
EXTENDS Integers, Sequences, FiniteSets, TLC

VARIABLES
    \* ---- the patcher (word_utils.py) ----
    runs,             \* paragraph.runs: sequence of [text, style]
    origRuns,         \* the runs as they were before the call
    error_text,       \* argument error_text
    correction_text,  \* argument correction_text
    ret,              \* the returned value
    ppc,              \* "build" while the paragraph is made, "done" after the call
    \* ---- the block builder (document_processor.py) ----
    texts,            \* the argument texts: len(text_data['current_text']) of each unit
    segments,         \* how many groups of units the input was made of
    bi,               \* the position in texts the loop has reached
    blocks,           \* blocks: each a sequence of positions in texts
    current_block,    \* current_block
    current_size,     \* current_size
    bpc,              \* "build" while the input is made, "loop", "done" after the return
    \* ---- the review client (api_client.py) ----
    now,               \* time.time(), in seconds since the client was made
    last_request_time, \* self.last_request_time
    cpc,               \* "idle", "loop" (inside the retry loop), "returned", "raised"
    attempt,           \* the loop variable attempt
    calls,             \* remote attempts made by this call
    failed,            \* remote attempts of this call that raised
    slept,             \* the delays slept between attempts, in order
    gate_sleep,        \* what the rate-limit test slept before the first attempt
    cresult,           \* the returned list of corrections
    ncalls,            \* calls of identify_errors_precise so far
    \* ---- worker threads calling the shared client (smart_document_processor.py) ----
    wpc,               \* wpc[t]: where task t is in identify_errors_precise
    w_current_time,    \* w_current_time[t]: the local current_time
    w_wake,            \* w_wake[t]: when the rate-limit sleep of task t ends
    attempt_start,     \* attempt_start[t]: when the first remote attempt began, -1 before
    \* ---- SmartDocumentProcessor.process_document ----
    doc,               \* doc.paragraphs: the text of each paragraph
    orig_doc,          \* the texts when process_document was called
    all_paragraphs,    \* all_paragraphs, with the marks _create_fast_blocks adds
    sblocks,           \* blocks: each the index fields of its paragraphs
    fstate,            \* fstate[b]: the future of block b: "pending", "running", "finished"
    fresult,           \* fresult[b]: what the task of block b returned
    freply,            \* freply[b]: what the review service answered for block b
    collected,         \* the blocks whose future the as_completed loop has had
    all_corrections,   \* all_corrections
    spc,               \* "build" before the call, "collect", "done"
    \* ---- the comparison of two texts ----
    orig_text,         \* the original text
    rev_text,          \* the revised text
    all_changes,       \* what _analyze_all_changes returned
    mark_runs,         \* the runs of the paragraph _mark_all_changes rewrote
    word_runs,         \* the runs of the paragraph the word-level report added
    difference,        \* what _analyze_difference returned
    dpc,               \* "build", "loaded", then the function that was applied
    \* ---- the pattern classifier ----
    ptext,             \* the text of the unit
    pfrags,            \* the number of pieces it was made of
    presult,           \* what _is_really_protected returned
    qpc,               \* "build", then "classified"
    \* ---- the second loop of _create_fast_blocks, paragraph by paragraph ----
    fparas,            \* paragraphs, each with its index and is_protected mark
    fsegs,             \* the number of groups the paragraphs were added in
    fk,                \* the position of the loop "for para in paragraphs"
    fblocks,           \* blocks
    fcurrent,          \* current_block
    fpc,               \* "build", "loop", "done"
    \* ---- one call of identify_errors_precise, with the response it got ----
    rpc,               \* "idle", "loop", "returned", "raised"
    rattempt,          \* attempt
    rcalls,            \* remote attempts made
    rresponse,         \* the response the last attempt got, NoResponse before
    rresult,           \* the returned list of corrections
    \* ---- DocumentProcessor.process_document ----
    dp_paras,          \* doc.paragraphs: the text of each paragraph
    dp_cells,          \* the text of each paragraph of the table cells of doc
    dp_orig_paras,     \* original_doc.paragraphs
    dp_orig_cells,     \* the cell paragraphs of original_doc
    dp_all_texts,      \* all_texts
    dp_blocks,         \* blocks
    dp_block,          \* the block the loop is at, from 1
    dp_nproc,          \* corrections gone through so far
    dp_all_corrections, \* all_corrections
    dp_by_index,       \* the keys of corrections_by_index
    dp_last,           \* the correction gone through last and what was decided
    dp_pc,             \* "build", "blocks", "done"
    \* ---- DocumentComparer.create_ultra_comparison ----
    cmp_orig,          \* original_doc: its paragraphs and tables
    cmp_rev,           \* revised_doc
    cmp_changes,       \* all_changes
    cmp_paragraphs,    \* the runs of each paragraph of comparison_doc
    cmp_cell_marks,    \* the cell paragraphs of comparison_doc that were marked
    cmp_summary,       \* the total the summary states
    cmp_pc             \* "build", "done"

patchVars == <<runs, origRuns, error_text, correction_text, ret, ppc>>
blockVars == <<texts, segments, bi, blocks, current_block, current_size, bpc>>
clockVars == <<now, last_request_time>>
clientVars == <<cpc, attempt, calls, failed, slept, gate_sleep, cresult, ncalls>>
poolVars == <<wpc, w_current_time, w_wake, attempt_start>>

smartVars == <<doc, orig_doc, all_paragraphs, sblocks, fstate, fresult,
               freply, collected, all_corrections, spc>>

diffVars == <<orig_text, rev_text, all_changes, mark_runs, word_runs,
              difference, dpc>>

protectVars == <<ptext, pfrags, presult, qpc>>

fastVars == <<fparas, fsegs, fk, fblocks, fcurrent, fpc>>

replyVars == <<rpc, rattempt, rcalls, rresponse, rresult>>

procVars == <<dp_paras, dp_cells, dp_orig_paras, dp_orig_cells, dp_all_texts,
              dp_blocks, dp_block, dp_nproc, dp_all_corrections, dp_by_index,
              dp_last, dp_pc>>

compareVars == <<cmp_orig, cmp_rev, cmp_changes, cmp_paragraphs, cmp_cell_marks,
                 cmp_summary, cmp_pc>>

vars == <<patchVars, blockVars, clockVars, clientVars, poolVars, smartVars,
          diffVars, protectVars,
          fastVars,
          replyVars,
          procVars,
          compareVars>>

\* ------------------------------------------------------------------------
\* Bounds of the model
\* ------------------------------------------------------------------------
MaxRuns     == 3   \* runs in a paragraph
MaxTextLen  == 4   \* characters in a paragraph
MaxErrLen   == 2   \* characters in an error text
MaxCorrLen  == 2   \* characters in a correction text
MaxSegments == 2   \* groups of equal-sized units in the block builder's input
MaxRespLen  == 2   \* corrections in one response of the review service
MaxCalls    == 2   \* calls of identify_errors_precise on one client, one after the other
MaxTasks    == 3   \* blocks submitted to the thread pool
MaxTime     == 3   \* seconds the clock runs while the pool works
MaxParas    == 3   \* paragraphs in a document
MaxReplyLen == 1   \* corrections the review service returns for one block
MaxOrigLen  == 2   \* characters in an original text typed in
MaxRevLen   == 3   \* characters in a revised text typed in
MaxFragments == 2  \* pieces a classified text is made of
MaxFastSegments == 3 \* groups of equally marked paragraphs given to _create_fast_blocks
MaxProcParas == 2  \* paragraphs in a document given to DocumentProcessor
MaxProcCells == 1  \* table cell paragraphs in that document
MaxProcCorrections == 2 \* corrections gone through in one run of DocumentProcessor
MaxCmpParas == 1   \* paragraphs in each of the two compared documents
MaxCmpTables == 1  \* tables in each of the two compared documents

\* ------------------------------------------------------------------------
\* Python string operations on sequences of characters
\* ------------------------------------------------------------------------
Min(a, b) == IF a < b THEN a ELSE b
Max(a, b) == IF a > b THEN a ELSE b

\* s[:k] for k >= 0 (a slice clips at the end of s)
Take(s, k) == SubSeq(s, 1, Min(k, Len(s)))
\* s[k:] for k >= 0
Drop(s, k) == SubSeq(s, k + 1, Len(s))

\* the 0-based offsets at which sub occurs in s
Occurrences(s, sub) ==
    {k \in 0..(Len(s) - Len(sub)) : SubSeq(s, k + 1, k + Len(sub)) = sub}

\* sub in s
Contains(s, sub) == Occurrences(s, sub) # {}

\* s.find(sub): the first offset, -1 when there is none
Find(s, sub) ==
    IF Occurrences(s, sub) = {} THEN -1
    ELSE CHOOSE k \in Occurrences(s, sub) : \A m \in Occurrences(s, sub) : k <= m

\* s.replace(old, new, 1) for a non-empty old
ReplaceFirst(s, old, new) ==
    IF ~Contains(s, old) THEN s
    ELSE Take(s, Find(s, old)) \o new \o Drop(s, Find(s, old) + Len(old))

\* all sequences over S of length at most n
RECURSIVE SeqsUpTo(_, _)
SeqsUpTo(S, n) ==
    IF n = 0 THEN {<<>>}
    ELSE LET shorter == SeqsUpTo(S, n - 1)
         IN  shorter \cup {Append(s, c) : s \in shorter, c \in S}

\* ------------------------------------------------------------------------
\* The patcher: WordDocumentHandler.apply_correction_preserving_format
\* ------------------------------------------------------------------------
RunChars  == {"a", "b"}
CorrChars == {"c"}
Styles    == {"bold", "plain"}

\* full_text: the concatenation of the runs' texts
RECURSIVE full_text(_)
full_text(rs) ==
    IF rs = <<>> THEN <<>> ELSE Head(rs).text \o full_text(Tail(rs))

\* the offset in the concatenated text at which run i starts
RECURSIVE RunStart(_, _)
RunStart(rs, i) ==
    IF i = 1 THEN 0 ELSE RunStart(rs, i - 1) + Len(rs[i - 1].text)

\* The loop over paragraph.runs, from run i on.  current_pos and
\* correction_applied are the loop's locals; only run.text is assigned.
RECURSIVE WalkRuns(_, _, _, _, _, _, _)
WalkRuns(rs, i, current_pos, correction_applied, error_pos, error_end, corr) ==
    IF i > Len(rs) THEN [runs |-> rs, ret |-> correction_applied]
    ELSE
      LET text      == rs[i].text
          run_start == current_pos
          run_end   == current_pos + Len(text)
      IN
      IF run_start < error_end /\ run_end > error_pos THEN
        LET keep_start == IF run_start < error_pos
                          THEN Take(text, error_pos - run_start) ELSE <<>>
            keep_end   == IF run_end > error_end
                          THEN Drop(text, error_end - run_start) ELSE <<>>
            correction_part == IF ~correction_applied THEN corr ELSE <<>>
            new_text   == keep_start \o correction_part \o keep_end
            rs2        == [rs EXCEPT ![i].text = new_text]
        IN
        IF run_start <= error_pos /\ run_end >= error_end
        THEN [runs |-> rs2, ret |-> TRUE]
        ELSE WalkRuns(rs2, i + 1, current_pos + Len(new_text), TRUE,
                      error_pos, error_end, corr)
      ELSE IF run_start >= error_pos /\ run_end <= error_end THEN
        WalkRuns([rs EXCEPT ![i].text = <<>>], i + 1, current_pos,
                 correction_applied, error_pos, error_end, corr)
      ELSE
        WalkRuns(rs, i + 1, current_pos + Len(text), correction_applied,
                 error_pos, error_end, corr)

\* a variant without the "error_text not in full_text" test
apply_correction_unchecked(rs, err, corr) ==
    WalkRuns(rs, 1, 0, FALSE, Find(full_text(rs), err),
             Find(full_text(rs), err) + Len(err), corr)

\* a variant that takes the span one character too long
apply_correction_span_too_long(rs, err, corr) ==
    IF ~Contains(full_text(rs), err)
    THEN [runs |-> rs, ret |-> FALSE]
    ELSE LET error_pos == Find(full_text(rs), err)
         IN  WalkRuns(rs, 1, 0, FALSE, error_pos, error_pos + Len(err) + 1, corr)

apply_correction_preserving_format(rs, err, corr) ==
    IF ~Contains(full_text(rs), err)
    THEN [runs |-> rs, ret |-> FALSE]
    ELSE LET error_pos == Find(full_text(rs), err)
         IN  WalkRuns(rs, 1, 0, FALSE, error_pos, error_pos + Len(err), corr)

\* The document holds one more run.  Neighbouring runs differ in style.
AddRun ==
    /\ ppc = "build"
    /\ Len(runs) < MaxRuns
    /\ \E t \in SeqsUpTo(RunChars, MaxTextLen - Len(full_text(runs))),
          s \in Styles :
         /\ runs # <<>> => s # runs[Len(runs)].style
         /\ runs' = Append(runs, [text |-> t, style |-> s])
    /\ UNCHANGED <<origRuns, error_text, correction_text, ret, ppc>>
    /\ UNCHANGED <<blockVars, clockVars, clientVars, poolVars, smartVars,
                   diffVars, protectVars, fastVars, replyVars, procVars, compareVars>>

\* One call of apply_correction_preserving_format(paragraph, e, c)
ApplyCorrection ==
    /\ ppc = "build"
    /\ \E e \in SeqsUpTo(RunChars, MaxErrLen),
          c \in SeqsUpTo(CorrChars, MaxCorrLen) :
         LET r == apply_correction_preserving_format(runs, e, c)
         IN  /\ runs' = r.runs
             /\ ret' = r.ret
             /\ error_text' = e
             /\ correction_text' = c
    /\ origRuns' = runs
    /\ ppc' = "done"
    /\ UNCHANGED <<blockVars, clockVars, clientVars, poolVars, smartVars,
                   diffVars, protectVars, fastVars, replyVars, procVars, compareVars>>

PatchNext == AddRun \/ ApplyCorrection

\* ------------------------------------------------------------------------
\* The block builder: DocumentProcessor._create_mixed_blocks
\* ------------------------------------------------------------------------
max_chunk_size      == 10000
max_texts_per_block == 100

\* the lengths the units of an input are drawn from
UnitSizes    == {1, 500, 6000, max_chunk_size + 1}
\* how many units of one length follow each other in an input
RepeatCounts == {1, 25, max_texts_per_block + 1}

\* n copies of x
Repeat(x, n) == [i \in 1..n |-> x]

\* the sum of the lengths of the units block[lo..hi]
RECURSIVE SizeOfRange(_, _, _, _)
SizeOfRange(ts, block, lo, hi) ==
    IF lo > hi THEN 0
    ELSE IF lo = hi THEN ts[block[lo]]
    ELSE LET mid == (lo + hi) \div 2
         IN  SizeOfRange(ts, block, lo, mid) + SizeOfRange(ts, block, mid + 1, hi)

\* the sum of the units' lengths in a block
BlockSize(ts, block) == SizeOfRange(ts, block, 1, Len(block))

\* a count test that lets one unit too many in
NeedsNewBlockOffByOne(size, text_size, current_len) ==
    size + text_size > max_chunk_size \/ current_len > max_texts_per_block

\* a size test that closes the block when the limit is reached exactly
NeedsNewBlockAtLimit(size, text_size, current_len) ==
    size + text_size >= max_chunk_size \/ current_len >= max_texts_per_block

\* a test that looks at the number of units only
NeedsNewBlockCountOnly(size, text_size, current_len) ==
    current_len >= max_texts_per_block

\* the test "Cria novo bloco se necessário"
NeedsNewBlock(size, text_size, current_len) ==
    size + text_size > max_chunk_size \/ current_len >= max_texts_per_block

\* The list of processable texts holds n more units of one length.
AddUnits ==
    /\ bpc = "build"
    /\ segments < MaxSegments
    /\ \E n \in RepeatCounts, size \in UnitSizes :
         texts' = texts \o Repeat(size, n)
    /\ segments' = segments + 1
    /\ UNCHANGED <<bi, blocks, current_block, current_size, bpc>>
    /\ UNCHANGED <<patchVars, clockVars, clientVars, poolVars, smartVars,
                   diffVars, protectVars, fastVars, replyVars, procVars, compareVars>>

\* _create_mixed_blocks(texts) is called: blocks, current_block and
\* current_size are fresh
CallCreateMixedBlocks ==
    /\ bpc = "build"
    /\ bi' = 1
    /\ blocks' = <<>>
    /\ current_block' = <<>>
    /\ current_size' = 0
    /\ bpc' = "loop"
    /\ UNCHANGED <<texts, segments>>
    /\ UNCHANGED <<patchVars, clockVars, clientVars, poolVars, smartVars,
                   diffVars, protectVars, fastVars, replyVars, procVars, compareVars>>

\* one pass of "for text_data in texts", for the unit at position bi
PackUnit ==
    /\ bpc = "loop"
    /\ bi <= Len(texts)
    /\ LET text_size == texts[bi] IN
       IF NeedsNewBlock(current_size, text_size, Len(current_block))
       THEN /\ blocks' = IF current_block # <<>>
                         THEN Append(blocks, current_block) ELSE blocks
            /\ current_block' = <<bi>>
            /\ current_size' = text_size
       ELSE /\ blocks' = blocks
            /\ current_block' = Append(current_block, bi)
            /\ current_size' = current_size + text_size
    /\ bi' = bi + 1
    /\ UNCHANGED <<texts, segments, bpc>>
    /\ UNCHANGED <<patchVars, clockVars, clientVars, poolVars, smartVars,
                   diffVars, protectVars, fastVars, replyVars, procVars, compareVars>>

\* the loop is over: the last block is closed and blocks is returned
ReturnBlocks ==
    /\ bpc = "loop"
    /\ bi > Len(texts)
    /\ blocks' = IF current_block # <<>>
                 THEN Append(blocks, current_block) ELSE blocks
    /\ bpc' = "done"
    /\ UNCHANGED <<texts, segments, bi, current_block, current_size>>
    /\ UNCHANGED <<patchVars, clockVars, clientVars, poolVars, smartVars,
                   diffVars, protectVars, fastVars, replyVars, procVars, compareVars>>

BlocksNext == AddUnits \/ CallCreateMixedBlocks \/ PackUnit \/ ReturnBlocks

\* ------------------------------------------------------------------------
\* The review client: OpenAIClient.identify_errors_precise
\* ------------------------------------------------------------------------
requests_per_minute == 60
min_time_between_requests == 60 \div requests_per_minute
retry_delays == <<2, 5, 10, 20>>

\* time.sleep's argument in the rate-limit test, 0 when it does not sleep
RateLimitSleep(current_time, last) ==
    LET time_since_last == current_time - last
    IN  IF time_since_last < min_time_between_requests
        THEN min_time_between_requests - time_since_last
        ELSE 0

\* What openai.ChatCompletion.create can raise.  Timeout, OverloadedError and
\* AuthenticationError stand for the exceptions no named clause catches:
\* the first two carry "timeout" / "overloaded" in their message.
RemoteErrors == {"APIError", "ServiceUnavailableError", "APIConnectionError",
                 "RateLimitError", "Timeout", "OverloadedError",
                 "AuthenticationError"}

\* a try statement whose last clause is missing
HandlerWithoutCatchAll(exc) ==
    IF exc \in {"APIError", "ServiceUnavailableError", "APIConnectionError"}
    THEN "server"
    ELSE IF exc = "RateLimitError" THEN "rate_limit"
    ELSE "none"

\* the except clause that catches exc
Handler(exc) ==
    IF exc \in {"APIError", "ServiceUnavailableError", "APIConnectionError"}
    THEN "server"
    ELSE IF exc = "RateLimitError" THEN "rate_limit"
    ELSE "generic"

\* "overloaded" in error_msg or "server" in error_msg or "timeout" in error_msg
MessageSaysRetry(exc) == exc \in {"Timeout", "OverloadedError"}

\* the entries a response's corrections array is made of
ResponseEntries ==
    [paragraph : {0, 1}, error : {<<>>, <<"a">>},
     correction : {<<>>, <<"a">>, <<"b">>}]

\* What the service answers: the shape of message.content and, where it
\* holds a JSON object with a corrections array, that array.  In
\* "braced_prose_object" the prose around the object holds a brace of its
\* own, so the span from the first "{" to the last "}" is not the object.
ResponseShapes == {"object", "prose_object", "braced_prose_object",
                   "malformed_object",
                   "prose_malformed", "no_json", "no_corrections_key",
                   "corrections_not_list", "no_content"}
\* the shapes in which a valid JSON object with corrections is present
ObjectShapes == {"object", "prose_object", "braced_prose_object"}
Responses ==
    [shape : ObjectShapes,
     corrections : SeqsUpTo(ResponseEntries, MaxRespLen)]
    \cup [shape : ResponseShapes \ ObjectShapes,
          corrections : {<<>>}]

\* "Validação super básica"
ValidCorrection(corr) ==
    /\ corr.paragraph # 0
    /\ corr.error # <<>>
    /\ corr.correction # <<>>
    /\ corr.error # corr.correction

\* valid_corrections: the valid entries, in order, with block_index added
RECURSIVE valid_corrections(_, _)
valid_corrections(corrections, block_index) ==
    IF corrections = <<>> THEN <<>>
    ELSE LET corr == Head(corrections)
             rest == valid_corrections(Tail(corrections), block_index)
         IN  IF ValidCorrection(corr)
             THEN <<[paragraph |-> corr.paragraph, error |-> corr.error,
                     correction |-> corr.correction,
                     block_index |-> block_index]>> \o rest
             ELSE rest

\* "Parse rápido do JSON": what is returned for a response with content
ParseResponse(resp, block_index) ==
    IF resp.shape \in {"object", "prose_object"}
    THEN valid_corrections(resp.corrections, block_index)
    ELSE <<>>   \* json.loads fails, no match, no key, or iteration fails

\* no attempt of the call has had a response
NoResponse == [shape |-> "none", corrections |-> <<>>]
\* what the except clauses do with exc raised by attempt number att
Retries(exc, att) ==
    /\ att < Len(retry_delays) - 1
    /\ \/ Handler(exc) \in {"server", "rate_limit"}
       \/ Handler(exc) = "generic" /\ MessageSaysRetry(exc)

\* identify_errors_precise(prompt, block_index) is called, at once or a
\* second after the last thing the client did: the rate-limit test, then
\* the loop begins.
CallIdentify ==
    /\ cpc \in {"idle", "returned"}
    /\ ncalls < MaxCalls
    /\ ncalls' = ncalls + 1
    /\ \E elapsed \in 0..min_time_between_requests :
         LET current_time == now + elapsed
             sleep == RateLimitSleep(current_time, last_request_time)
         IN  /\ now' = current_time + sleep
             /\ last_request_time' = current_time + sleep
             /\ gate_sleep' = sleep
    /\ attempt' = 0
    /\ calls' = 0
    /\ failed' = 0
    /\ slept' = <<>>
    /\ cresult' = <<>>
    /\ cpc' = "loop"
    /\ UNCHANGED <<patchVars, blockVars, poolVars, smartVars, diffVars,
                   protectVars, fastVars, replyVars, procVars, compareVars>>

\* An attempt gets a response: it is parsed and the call returns.  A
\* response without content raises inside the try; the last clause catches
\* it and returns [].
AttemptResponds ==
    /\ cpc = "loop"
    /\ attempt < Len(retry_delays)
    /\ \E resp \in Responses :
         cresult' = IF resp.shape = "no_content" THEN <<>>
                    ELSE ParseResponse(resp, 0)
    /\ calls' = calls + 1
    /\ cpc' = "returned"
    /\ UNCHANGED <<now, last_request_time, attempt, failed, slept, gate_sleep, ncalls>>
    /\ UNCHANGED <<patchVars, blockVars, poolVars, smartVars, diffVars,
                   protectVars, fastVars, replyVars, procVars, compareVars>>

\* after a failed attempt: sleep delay and go round again
RetryAfter(delay) ==
    /\ slept' = Append(slept, delay)
    /\ now' = now + delay
    /\ attempt' = attempt + 1
    /\ UNCHANGED <<cpc, cresult>>

\* after a failed attempt: return []
GiveUp ==
    /\ cresult' = <<>>
    /\ cpc' = "returned"
    /\ UNCHANGED <<now, attempt, slept>>

\* An attempt raises exc: the except clause that catches it decides.
AttemptRaises ==
    /\ cpc = "loop"
    /\ attempt < Len(retry_delays)
    /\ calls' = calls + 1
    /\ failed' = failed + 1
    /\ \E exc \in RemoteErrors :
         CASE Handler(exc) = "server" ->
                IF attempt < Len(retry_delays) - 1
                THEN RetryAfter(retry_delays[attempt + 1])
                ELSE GiveUp
           [] Handler(exc) = "rate_limit" ->
                IF attempt < Len(retry_delays) - 1
                THEN RetryAfter(retry_delays[attempt + 1] * 2)
                ELSE GiveUp
           [] Handler(exc) = "generic" ->
                IF MessageSaysRetry(exc) /\ attempt < Len(retry_delays) - 1
                THEN RetryAfter(retry_delays[attempt + 1])
                ELSE GiveUp
           [] OTHER ->     \* no clause catches exc: it reaches the caller
                /\ cpc' = "raised"
                /\ UNCHANGED <<now, attempt, slept, cresult>>
    /\ UNCHANGED <<last_request_time, gate_sleep, ncalls>>
    /\ UNCHANGED <<patchVars, blockVars, poolVars, smartVars, diffVars,
                   protectVars, fastVars, replyVars, procVars, compareVars>>

ClientNext == CallIdentify \/ AttemptResponds \/ AttemptRaises

\* ------------------------------------------------------------------------
\* The thread pool of SmartDocumentProcessor.process_document: every task is
\* _process_single_block_fast, which calls identify_errors_precise on the
\* one api_client.  The steps are the statements of its rate-limit test.
\* ------------------------------------------------------------------------
max_workers == 2
Tasks == 1..MaxTasks

Running(t) == wpc[t] \notin {"queued", "done"}

\* a pool thread is free and takes task t: it reaches line 34
StartTask(t) ==
    /\ wpc[t] = "queued"
    /\ Cardinality({u \in Tasks : Running(u)}) < max_workers
    /\ wpc' = [wpc EXCEPT ![t] = "read_clock"]
    /\ UNCHANGED <<w_current_time, w_wake, attempt_start, clockVars>>
    /\ UNCHANGED <<patchVars, blockVars, clientVars, smartVars, diffVars,
                   protectVars, fastVars, replyVars, procVars, compareVars>>

\* current_time = time.time()
ReadClock(t) ==
    /\ wpc[t] = "read_clock"
    /\ w_current_time' = [w_current_time EXCEPT ![t] = now]
    /\ wpc' = [wpc EXCEPT ![t] = "read_last"]
    /\ UNCHANGED <<w_wake, attempt_start, clockVars>>
    /\ UNCHANGED <<patchVars, blockVars, clientVars, smartVars, diffVars,
                   protectVars, fastVars, replyVars, procVars, compareVars>>

\* time_since_last = current_time - self.last_request_time, and the test:
\* time.sleep(...) begins, or the thread goes on to line 39
ReadLastRequestTime(t) ==
    /\ wpc[t] = "read_last"
    /\ LET sleep == RateLimitSleep(w_current_time[t], last_request_time)
       IN  IF sleep > 0
           THEN /\ w_wake' = [w_wake EXCEPT ![t] = now + sleep]
                /\ wpc' = [wpc EXCEPT ![t] = "sleeping"]
           ELSE /\ w_wake' = w_wake
                /\ wpc' = [wpc EXCEPT ![t] = "stamp"]
    /\ UNCHANGED <<w_current_time, attempt_start, clockVars>>
    /\ UNCHANGED <<patchVars, blockVars, clientVars, smartVars, diffVars,
                   protectVars, fastVars, replyVars, procVars, compareVars>>

\* time.sleep returns
WakeUp(t) ==
    /\ wpc[t] = "sleeping"
    /\ now >= w_wake[t]
    /\ wpc' = [wpc EXCEPT ![t] = "stamp"]
    /\ UNCHANGED <<w_current_time, w_wake, attempt_start, clockVars>>
    /\ UNCHANGED <<patchVars, blockVars, clientVars, smartVars, diffVars,
                   protectVars, fastVars, replyVars, procVars, compareVars>>

\* self.last_request_time = time.time()
StampRequestTime(t) ==
    /\ wpc[t] = "stamp"
    /\ last_request_time' = now
    /\ wpc' = [wpc EXCEPT ![t] = "call"]
    /\ UNCHANGED <<now, w_current_time, w_wake, attempt_start>>
    /\ UNCHANGED <<patchVars, blockVars, clientVars, smartVars, diffVars,
                   protectVars, fastVars, replyVars, procVars, compareVars>>

\* the first openai.ChatCompletion.create of the call begins
BeginAttempt(t) ==
    /\ wpc[t] = "call"
    /\ attempt_start' = [attempt_start EXCEPT ![t] = now]
    /\ wpc' = [wpc EXCEPT ![t] = "in_call"]
    /\ UNCHANGED <<w_current_time, w_wake, clockVars>>
    /\ UNCHANGED <<patchVars, blockVars, clientVars, smartVars, diffVars,
                   protectVars, fastVars, replyVars, procVars, compareVars>>

\* identify_errors_precise returns and the task ends
FinishTask(t) ==
    /\ wpc[t] = "in_call"
    /\ wpc' = [wpc EXCEPT ![t] = "done"]
    /\ UNCHANGED <<w_current_time, w_wake, attempt_start, clockVars>>
    /\ UNCHANGED <<patchVars, blockVars, clientVars, smartVars, diffVars,
                   protectVars, fastVars, replyVars, procVars, compareVars>>

\* a second passes
Tick ==
    /\ now < min_time_between_requests + MaxTime
    /\ \E t \in Tasks : wpc[t] # "done"
    /\ now' = now + 1
    /\ UNCHANGED <<last_request_time, poolVars>>
    /\ UNCHANGED <<patchVars, blockVars, clientVars, smartVars, diffVars,
                   protectVars, fastVars, replyVars, procVars, compareVars>>

PoolNext ==
    \/ \E t \in Tasks :
         \/ StartTask(t) \/ ReadClock(t) \/ ReadLastRequestTime(t)
         \/ WakeUp(t) \/ StampRequestTime(t) \/ BeginAttempt(t)
         \/ FinishTask(t)
    \/ Tick

\* The next access of task t to a field of the shared client, and the locks
\* it holds then.  corrections_lock is made and never acquired.
NextAccess(t) ==
    IF wpc[t] = "read_last"
    THEN [field |-> "last_request_time", kind |-> "read"]
    ELSE IF wpc[t] = "stamp"
    THEN [field |-> "last_request_time", kind |-> "write"]
    ELSE [field |-> "none", kind |-> "none"]
HeldLocks(t) == {}

\* ------------------------------------------------------------------------
\* SmartDocumentProcessor: extraction, protection, blocks, the parallel
\* review of the blocks and the application of the corrections
\* ------------------------------------------------------------------------
target_paragraphs_per_block == 50
title_max_len == 100

Digits == {"0", "1", "2", "3", "4", "5", "6", "7", "8", "9"}
Whitespace == {" ", "\t", "\n"}

\* s.strip()
RECURSIVE LStrip(_)
LStrip(s) == IF s # <<>> /\ Head(s) \in Whitespace THEN LStrip(Tail(s)) ELSE s
RECURSIVE RStrip(_)
RStrip(s) ==
    IF s # <<>> /\ s[Len(s)] \in Whitespace
    THEN RStrip(SubSeq(s, 1, Len(s) - 1)) ELSE s
Strip(s) == RStrip(LStrip(s))

\* any(marker in text for marker in markers)
AnyMarkerIn(markers, text) == \E m \in markers : Contains(text, m)

\* re.match(r'^\d+[\.\)]', text)
NumberedStart(text) ==
    \E k \in 1..(Len(text) - 1) :
        /\ \A j \in 1..k : text[j] \in Digits
        /\ text[k + 1] \in {".", ")"}

\* the marker lists of _extract_all_content_fast
SourceMarkers ==
    {<<"F", "o", "n", "t", "e", ":">>,
     <<"R", "e", "f", "e", "r", "ê", "n", "c", "i", "a", ":">>,
     <<"E", "x", "t", "r", "a", "í", "d", "o", " ", "d", "e", ":">>,
     <<"A", "d", "a", "p", "t", "a", "d", "o", " ", "d", "e", ":">>,
     <<"W", "i", "k", "i", "p", "e", "d", "i", "a">>,
     <<"(", "F", "o", "n", "t", "e">>,
     <<"D", "i", "s", "p", "o", "n", "í", "v", "e", "l", " ", "e", "m", ":">>,
     <<"A", "c", "e", "s", "s", "o", " ", "e", "m", ":">>}
NextSourceMarkers ==
    {<<"F", "o", "n", "t", "e", ":">>,
     <<"R", "e", "f", "e", "r", "ê", "n", "c", "i", "a", ":">>,
     <<"W", "i", "k", "i", "p", "e", "d", "i", "a">>}
\* the marker lists of _create_fast_blocks
SignatureMarkers ==
    {<<"A", "t", "e", "n", "c", "i", "o", "s", "a", "m", "e", "n", "t", "e">>,
     <<"C", "o", "r", "d", "i", "a", "l", "m", "e", "n", "t", "e">>,
     <<"U", "m", " ", "a", "b", "r", "a", "ç", "o">>,
     <<"A", "b", "r", "a", "ç", "o", "s">>,
     <<"S", "a", "u", "d", "a", "ç", "õ", "e", "s">>,
     <<"R", "e", "s", "p", "e", "i", "t", "o", "s", "a", "m", "e", "n", "t", "e">>,
     <<"G", "r", "a", "t", "o">>,
     <<"O", "b", "r", "i", "g", "a", "d", "o">>}
ReferenceMarkers ==
    {<<"D", "i", "s", "p", "o", "n", "í", "v", "e", "l", " ", "e", "m", ":">>,
     <<"A", "c", "e", "s", "s", "o", " ", "e", "m", ":">>,
     <<"F", "o", "n", "t", "e", ":">>,
     <<"R", "e", "f", "e", "r", "ê", "n", "c", "i", "a", ":">>,
     <<"A", "d", "a", "p", "t", "a", "d", "o">>,
     <<"E", "x", "t", "r", "a", "í", "d", "o", " ", "d", "e", ":">>,
     <<"R", "e", "t", "i", "r", "a", "d", "o", " ", "d", "e", ":">>,
     <<"h", "t", "t", "p", "s", ":", "/", "/">>,
     <<"h", "t", "t", "p", ":", "/", "/">>,
     <<"w", "w", "w", ".">>}
ScanStopMarkers ==
    {<<"D", "i", "s", "p", "o", "n", "í", "v", "e", "l", " ", "e", "m", ":">>,
     <<"F", "o", "n", "t", "e", ":">>}

\* the positions (from 1) of the paragraphs of d whose text is not blank
NonBlank(d) == {i \in 1..Len(d) : Strip(d[i]) # <<>>}
\* para_num of the paragraph at position i: the non-blank ones are counted
ParaNum(d, i) == Cardinality({j \in NonBlank(d) : j <= i})
\* the position of the paragraph whose para_num is n
PositionOf(d, n) == CHOOSE i \in NonBlank(d) : ParaNum(d, i) = n

\* is_protected as _extract_all_content_fast sets it, for position i
ExtractProtected(d, i) ==
    \/ AnyMarkerIn(SourceMarkers, Strip(d[i]))
    \/ /\ i < Len(d)
       /\ AnyMarkerIn(NextSourceMarkers, Strip(d[i + 1]))

\* _extract_all_content_fast: one record per non-blank paragraph, in order
\* (doc_index counts from 0 as enumerate does)
extract_all_content_fast(d) ==
    [n \in 1..Cardinality(NonBlank(d)) |->
        LET i == PositionOf(d, n)
        IN  [index |-> n, doc_index |-> i - 1, text |-> d[i],
             is_protected |-> ExtractProtected(d, i)]]

\* the backward loop "for j in range(i-1, -1, -1)" from j down (j from 1),
\* start_idx as it stands; returns the final start_idx (from 1)
RECURSIVE ScanBack(_, _, _)
ScanBack(ps, j, start_idx) ==
    IF j < 1 THEN start_idx
    ELSE LET para_text == Strip(ps[j].text) IN
         IF \/ para_text = <<>>
            \/ NumberedStart(para_text)
            \/ AnyMarkerIn(ScanStopMarkers, para_text)
         THEN j + 1
         ELSE IF Len(para_text) < title_max_len /\ para_text[Len(para_text)] # "."
              THEN ScanBack(ps, j - 1, j)
              ELSE ScanBack(ps, j - 1, start_idx)

\* paragraph i carries a signature or a reference
IsSignatureOrReference(ps, i) ==
    \/ AnyMarkerIn(SignatureMarkers, Strip(ps[i].text))
    \/ AnyMarkerIn(ReferenceMarkers, Strip(ps[i].text))

\* the first loop of _create_fast_blocks: the paragraphs with the
\* protection marks it adds
mark_protected(ps) ==
    [k \in 1..Len(ps) |->
        IF \E i \in k..Len(ps) :
              /\ IsSignatureOrReference(ps, i)
              /\ ScanBack(ps, i - 1, i) <= k
        THEN [ps[k] EXCEPT !.is_protected = TRUE]
        ELSE ps[k]]

\* one pass of the second loop of _create_fast_blocks: blocks and
\* current_block after para; a block is the sequence of the index fields
\* of its paragraphs
PackParagraphLate(para, bs, cur) ==
    LET cur2 == IF ~para.is_protected THEN Append(cur, para.index) ELSE cur
    IN  IF (Len(cur2) > target_paragraphs_per_block \/ para.is_protected)
           /\ cur2 # <<>>
        THEN [blocks |-> Append(bs, cur2), current |-> <<>>]
        ELSE [blocks |-> bs, current |-> cur2]

PackParagraph(para, bs, cur) ==
    LET cur2 == IF ~para.is_protected THEN Append(cur, para.index) ELSE cur
    IN  IF (Len(cur2) >= target_paragraphs_per_block \/ para.is_protected)
           /\ cur2 # <<>>
        THEN [blocks |-> Append(bs, cur2), current |-> <<>>]
        ELSE [blocks |-> bs, current |-> cur2]

\* the second loop of _create_fast_blocks from paragraph k on
RECURSIVE BuildBlocks(_, _, _, _)
BuildBlocks(ps, k, bs, cur) ==
    IF k > Len(ps)
    THEN IF cur # <<>> THEN Append(bs, cur) ELSE bs
    ELSE LET st == PackParagraph(ps[k], bs, cur)
         IN  BuildBlocks(ps, k + 1, st.blocks, st.current)

create_fast_blocks(ps) == BuildBlocks(mark_protected(ps), 1, <<>>, <<>>)

\* "Mapeia correções para índices globais" in _process_single_block_fast
RECURSIVE map_to_global(_, _)
map_to_global(corrections, block) ==
    IF corrections = <<>> THEN <<>>
    ELSE LET corr == Head(corrections)
             para_num_in_block == corr.paragraph
         IN  <<IF 0 < para_num_in_block /\ para_num_in_block <= Len(block)
               THEN [corr EXCEPT !.paragraph = block[para_num_in_block]]
               ELSE corr>>
             \o map_to_global(Tail(corrections), block)

\* "Aplica correções" in _apply_corrections_fast: para_map is built from the
\* document before the loop, the texts are read and written as it goes
RECURSIVE ApplyFrom(_, _, _)
ApplyFrom(d, para_map, corrections) ==
    IF corrections = <<>> THEN d
    ELSE LET corr == Head(corrections)
             para_num == corr.paragraph
         IN  IF para_num \in DOMAIN para_map
             THEN LET pos == para_map[para_num]
                      current_text == d[pos]
                  IN  IF /\ corr.error # <<>>
                         /\ corr.correction # <<>>
                         /\ Contains(current_text, corr.error)
                      THEN ApplyFrom(
                             [d EXCEPT ![pos] = ReplaceFirst(current_text,
                                                 corr.error, corr.correction)],
                             para_map, Tail(corrections))
                      ELSE ApplyFrom(d, para_map, Tail(corrections))
             ELSE ApplyFrom(d, para_map, Tail(corrections))

apply_corrections_fast(d, corrections) ==
    ApplyFrom(d, [n \in 1..Cardinality(NonBlank(d)) |-> PositionOf(d, n)],
              corrections)

\* the paragraph texts the documents are made of: a blank paragraph, a
\* sentence, a line naming its source in brackets, a source line
ParagraphTexts ==
    {<<>>,
     <<"a", "b", ".">>,
     <<"(", "F", "o", "n", "t", "e", " ", "a", ")">>,
     <<"F", "o", "n", "t", "e", ":", " ", "a">>}

\* what identify_errors_precise returns to a task: valid corrections
ReviewCorrections ==
    [paragraph : 1..MaxParas,
     error : {<<"a">>}, correction : {<<"b">>}, block_index : {0}]
    \cup [paragraph : 1..MaxParas,
          error : {<<"b">>}, correction : {<<"c">>}, block_index : {0}]
Replies == SeqsUpTo(ReviewCorrections, MaxReplyLen)

BlockIds == 1..Len(sblocks)
\* a loop that ends with the first result
SomeCollected == collected # {} \/ BlockIds = {}
\* the loop over as_completed(futures) has ended and the executor is shut
AllCollected == collected = BlockIds

\* The document holds one more paragraph.
AddParagraph ==
    /\ spc = "build"
    /\ Len(doc) < MaxParas
    /\ \E t \in ParagraphTexts : doc' = Append(doc, t)
    /\ UNCHANGED <<orig_doc, all_paragraphs, sblocks, fstate, fresult,
                   freply, collected, all_corrections, spc>>
    /\ UNCHANGED <<patchVars, blockVars, clockVars, clientVars, poolVars,
                   diffVars, protectVars, fastVars, replyVars, procVars, compareVars>>

\* process_document up to the submission of every block to the executor
StartProcessing ==
    /\ spc = "build"
    /\ orig_doc' = doc
    /\ LET ps == extract_all_content_fast(doc)
       IN  /\ all_paragraphs' = mark_protected(ps)
           /\ sblocks' = create_fast_blocks(ps)
           /\ fstate' = [b \in 1..Len(create_fast_blocks(ps)) |-> "pending"]
           /\ fresult' = [b \in 1..Len(create_fast_blocks(ps)) |-> <<>>]
           /\ freply' = [b \in 1..Len(create_fast_blocks(ps)) |-> <<>>]
    /\ collected' = {}
    /\ all_corrections' = <<>>
    /\ spc' = "collect"
    /\ UNCHANGED doc
    /\ UNCHANGED <<patchVars, blockVars, clockVars, clientVars, poolVars,
                   diffVars, protectVars, fastVars, replyVars, procVars, compareVars>>

\* a pool thread takes block b
WorkerStart(b) ==
    /\ spc = "collect"
    /\ fstate[b] = "pending"
    /\ Cardinality({u \in BlockIds : fstate[u] = "running"}) < max_workers
    /\ fstate' = [fstate EXCEPT ![b] = "running"]
    /\ UNCHANGED <<doc, orig_doc, all_paragraphs, sblocks, fresult,
                   freply, collected, all_corrections, spc>>
    /\ UNCHANGED <<patchVars, blockVars, clockVars, clientVars, poolVars,
                   diffVars, protectVars, fastVars, replyVars, procVars, compareVars>>

\* _process_single_block_fast of block b gets the client's answer, maps the
\* paragraph numbers and returns
WorkerFinish(b) ==
    /\ fstate[b] = "running"
    /\ \E corrections \in Replies :
         /\ freply' = [freply EXCEPT ![b] = corrections]
         /\ fresult' = [fresult EXCEPT ![b] = map_to_global(corrections, sblocks[b])]
    /\ fstate' = [fstate EXCEPT ![b] = "finished"]
    /\ UNCHANGED <<doc, orig_doc, all_paragraphs, sblocks,
                   collected, all_corrections, spc>>
    /\ UNCHANGED <<patchVars, blockVars, clockVars, clientVars, poolVars,
                   diffVars, protectVars, fastVars, replyVars, procVars, compareVars>>

\* as_completed yields the future of block b: its corrections are appended
Collect(b) ==
    /\ spc = "collect"
    /\ fstate[b] = "finished"
    /\ b \notin collected
    /\ collected' = collected \cup {b}
    /\ all_corrections' = all_corrections \o fresult[b]
    /\ UNCHANGED <<doc, orig_doc, all_paragraphs, sblocks, fstate, fresult,
                   freply, spc>>
    /\ UNCHANGED <<patchVars, blockVars, clockVars, clientVars, poolVars,
                   diffVars, protectVars, fastVars, replyVars, procVars, compareVars>>

\* steps 7 on: the corrections are applied, the document and report saved
ApplyAndSave ==
    /\ spc = "collect"
    /\ AllCollected
    /\ doc' = IF all_corrections # <<>>
              THEN apply_corrections_fast(doc, all_corrections) ELSE doc
    /\ spc' = "done"
    /\ UNCHANGED <<orig_doc, all_paragraphs, sblocks, fstate, fresult,
                   freply, collected, all_corrections>>
    /\ UNCHANGED <<patchVars, blockVars, clockVars, clientVars, poolVars,
                   diffVars, protectVars, fastVars, replyVars, procVars, compareVars>>

SmartNext ==
    \/ AddParagraph
    \/ StartProcessing
    \/ \E b \in BlockIds : WorkerStart(b)
    \/ \E b \in BlockIds : WorkerFinish(b)
    \/ \E b \in BlockIds : Collect(b)
    \/ ApplyAndSave

\* ------------------------------------------------------------------------
\* The comparison of an original and a revised text: difflib's opcodes as
\* DocumentComparer, DocumentProcessor and gerar_relatorio use them
\* ------------------------------------------------------------------------
DiffChars == {"a", "b", ".", ","}
Punctuation == {".", ",", ":", ";", "(", ")", "[", "]", "/"}
\* \w of the regular expressions, for the characters used here
IsWordChar(c) == c \notin Whitespace \cup Punctuation

\* a slice that stops one character early
SliceOneShort(s, i1, i2) == SubSeq(s, i1 + 1, i2 - 1)

\* s[i1:i2], offsets from 0
Slice(s, i1, i2) == SubSeq(s, i1 + 1, i2)

\* a[i:i+k] == b[j:j+k]
MatchesAt(a, b, i, j, k) == \A d \in 1..k : a[i + d] = b[j + d]

\* the length of the longest common run of a and b that starts at i and j
\* and stays below ahi and bhi
RECURSIVE RunLength(_, _, _, _, _, _)
RunLength(a, b, i, j, ahi, bhi) ==
    IF i < ahi /\ j < bhi /\ a[i + 1] = b[j + 1]
    THEN 1 + RunLength(a, b, i + 1, j + 1, ahi, bhi) ELSE 0

\* SequenceMatcher.find_longest_match(alo, ahi, blo, bhi) with no junk: the
\* longest block, of those the one that starts earliest in a, of those the
\* one that starts earliest in b; (alo, blo, 0) when nothing matches
find_longest_match(a, b, alo, ahi, blo, bhi) ==
    LET starts   == (alo..(ahi - 1)) \X (blo..(bhi - 1))
        len(p)   == RunLength(a, b, p[1], p[2], ahi, bhi)
        bestsize == IF starts = {} THEN 0
                    ELSE CHOOSE k \in {len(p) : p \in starts} :
                             \A p \in starts : len(p) <= k
        besti    == CHOOSE i \in alo..(ahi - 1) :
                      /\ \E j \in blo..(bhi - 1) : len(<<i, j>>) = bestsize
                      /\ \A i2 \in alo..(i - 1) :
                           \A j \in blo..(bhi - 1) : len(<<i2, j>>) # bestsize
        bestj    == CHOOSE j \in blo..(bhi - 1) :
                      /\ len(<<besti, j>>) = bestsize
                      /\ \A j2 \in blo..(j - 1) : len(<<besti, j2>>) # bestsize
    IN  IF bestsize = 0 THEN [i |-> alo, j |-> blo, k |-> 0]
        ELSE [i |-> besti, j |-> bestj, k |-> bestsize]

\* the blocks get_matching_blocks finds between a[alo:ahi] and b[blo:bhi],
\* sorted: the longest match, and the same to its left and to its right
RECURSIVE MatchingBlocksIn(_, _, _, _, _, _)
MatchingBlocksIn(a, b, alo, ahi, blo, bhi) ==
    LET x == find_longest_match(a, b, alo, ahi, blo, bhi)
    IN  IF x.k = 0 THEN <<>>
        ELSE (IF alo < x.i /\ blo < x.j
              THEN MatchingBlocksIn(a, b, alo, x.i, blo, x.j) ELSE <<>>)
             \o <<x>>
             \o (IF x.i + x.k < ahi /\ x.j + x.k < bhi
                 THEN MatchingBlocksIn(a, b, x.i + x.k, ahi, x.j + x.k, bhi)
                 ELSE <<>>)

\* get_matching_blocks joins the blocks that touch in both texts
RECURSIVE MergeAdjacent(_, _, _)
MergeAdjacent(bs, n, cur) ==
    IF n > Len(bs) THEN (IF cur.k > 0 THEN <<cur>> ELSE <<>>)
    ELSE IF cur.i + cur.k = bs[n].i /\ cur.j + cur.k = bs[n].j
         THEN MergeAdjacent(bs, n + 1, [cur EXCEPT !.k = cur.k + bs[n].k])
         ELSE (IF cur.k > 0 THEN <<cur>> ELSE <<>>)
              \o MergeAdjacent(bs, n + 1, bs[n])

\* a variant that does not end with the block (la, lb, 0)
get_matching_blocks_without_end(a, b) ==
    MergeAdjacent(MatchingBlocksIn(a, b, 0, Len(a), 0, Len(b)), 1,
                  [i |-> 0, j |-> 0, k |-> 0])

\* SequenceMatcher.get_matching_blocks(): ends with the block (la, lb, 0)
get_matching_blocks(a, b) ==
    MergeAdjacent(MatchingBlocksIn(a, b, 0, Len(a), 0, Len(b)), 1,
                  [i |-> 0, j |-> 0, k |-> 0])
    \o <<[i |-> Len(a), j |-> Len(b), k |-> 0]>>

\* the loop of get_opcodes from the n-th matching block, i and j being the
\* ends of the block before it
RECURSIVE OpcodesFrom(_, _, _, _)
OpcodesFrom(bs, n, i, j) ==
    IF n > Len(bs) THEN <<>>
    ELSE LET ai == bs[n].i
             bj == bs[n].j
             size == bs[n].k
             tag == IF i < ai /\ j < bj THEN "replace"
                    ELSE IF i < ai THEN "delete"
                    ELSE IF j < bj THEN "insert" ELSE ""
         IN  (IF tag # ""
              THEN <<[tag |-> tag, i1 |-> i, i2 |-> ai, j1 |-> j, j2 |-> bj]>>
              ELSE <<>>)
             \o (IF size > 0
                 THEN <<[tag |-> "equal", i1 |-> ai, i2 |-> ai + size,
                         j1 |-> bj, j2 |-> bj + size]>>
                 ELSE <<>>)
             \o OpcodesFrom(bs, n + 1, ai + size, bj + size)

\* difflib.SequenceMatcher(None, a, b).get_opcodes()
get_opcodes(a, b) == OpcodesFrom(get_matching_blocks(a, b), 1, 0, 0)

\* the 'position' of a record that has no such key
NoPosition == -1
SemPontoFinal == <<"[", "S", "E", "M", " ", "P", "O", "N", "T", "O", " ", "F", "I", "N", "A", "L", "]">>
SemVirgula == <<"[", "S", "E", "M", " ", "V", "Í", "R", "G", "U", "L", "A", "]">>

\* the records of the loop over the opcodes in _analyze_all_changes
RECURSIVE OpcodeRecords(_, _, _, _)
OpcodeRecords(ops, n, original, revised) ==
    IF n > Len(ops) THEN <<>>
    ELSE LET op == ops[n]
             rest == OpcodeRecords(ops, n + 1, original, revised)
         IN  IF op.tag = "replace"
             THEN <<[type |-> "substituição",
                     error |-> Slice(original, op.i1, op.i2),
                     correction |-> Slice(revised, op.j1, op.j2),
                     position |-> op.i1]>> \o rest
             ELSE IF op.tag = "delete"
             THEN <<[type |-> "remoção",
                     error |-> Slice(original, op.i1, op.i2),
                     correction |-> <<>>,
                     position |-> op.i1]>> \o rest
             ELSE IF op.tag = "insert"
             THEN <<[type |-> "adição",
                     error |-> <<>>,
                     correction |-> Slice(revised, op.j1, op.j2),
                     position |-> op.i1]>> \o rest
             ELSE rest

\* _analyze_all_changes without its two shortcuts
analyze_by_diff_only(original, revised) ==
    LET changes == OpcodeRecords(get_opcodes(original, revised), 1,
                                 original, revised)
    IN  IF changes = <<>> /\ original # revised
        THEN <<[type |-> "mudança geral", error |-> original,
                correction |-> revised, position |-> NoPosition]>>
        ELSE changes

\* a variant that reports every difference as one full rewrite
analyze_as_full_rewrite(original, revised) ==
    IF original = revised THEN <<>>
    ELSE <<[type |-> "mudança geral", error |-> original,
            correction |-> revised, position |-> NoPosition]>>

\* DocumentComparer._analyze_all_changes
analyze_all_changes(original, revised) ==
    IF revised = original \o <<".">>
    THEN <<[type |-> "pontuação", error |-> SemPontoFinal,
            correction |-> <<".">>, position |-> NoPosition]>>
    ELSE IF revised = original \o <<",">>
    THEN <<[type |-> "pontuação", error |-> SemVirgula,
            correction |-> <<",">>, position |-> NoPosition]>>
    ELSE LET changes == OpcodeRecords(get_opcodes(original, revised), 1,
                                      original, revised)
         IN  IF changes = <<>> /\ original # revised
             THEN <<[type |-> "mudança geral", error |-> original,
                     correction |-> revised, position |-> NoPosition]>>
             ELSE changes

\* "".join(tokens)
RECURSIVE Join(_)
Join(tokens) == IF tokens = <<>> THEN <<>> ELSE Head(tokens) \o Join(Tail(tokens))

\* the runs the loops over the opcodes add: the a-side span struck, the
\* b-side span added, an equal span as it is
RECURSIVE OpcodeRuns(_, _, _, _)
OpcodeRuns(ops, n, a, b) ==
    IF n > Len(ops) THEN <<>>
    ELSE LET op == ops[n]
             old == [text |-> Slice(a, op.i1, op.i2), mark |-> "removed"]
             new == [text |-> Slice(b, op.j1, op.j2), mark |-> "added"]
             same == [text |-> Slice(a, op.i1, op.i2), mark |-> "normal"]
         IN  (CASE op.tag = "equal" -> <<same>>
                [] op.tag = "replace" -> <<old, new>>
                [] op.tag = "delete" -> <<old>>
                [] op.tag = "insert" -> <<new>>)
             \o OpcodeRuns(ops, n + 1, a, b)

\* DocumentComparer._mark_all_changes on a paragraph with the runs rs: the
\* runs are emptied, then one run or two are added per opcode
mark_all_changes(rs, original_text, revised_text) ==
    [k \in 1..Len(rs) |-> [rs[k] EXCEPT !.text = <<>>]]
    \o OpcodeRuns(get_opcodes(original_text, revised_text), 1,
                  original_text, revised_text)

\* re.findall(r'\w+|\W+', s): the maximal runs of word characters and of
\* other characters; cur is the token being read
RECURSIVE TokensFrom(_, _, _)
TokensFrom(s, n, cur) ==
    IF n > Len(s) THEN (IF cur # <<>> THEN <<cur>> ELSE <<>>)
    ELSE IF cur = <<>> \/ IsWordChar(s[n]) = IsWordChar(cur[1])
         THEN TokensFrom(s, n + 1, Append(cur, s[n]))
         ELSE <<cur>> \o TokensFrom(s, n + 1, <<s[n]>>)
Tokens(s) == TokensFrom(s, 1, <<>>)

ResultadoVisual == <<"R", "e", "s", "u", "l", "t", "a", "d", "o", " ", "V", "i", "s", "u", "a", "l", ":", " ">>

\* the runs of OpcodeRuns over tokens, each the joined tokens of its span
JoinedRuns(rs) == [k \in 1..Len(rs) |-> [rs[k] EXCEPT !.text = Join(rs[k].text)]]

\* gerar_relatorio.adicionar_paragrafo_com_destaque_por_palavra: the runs of
\* the paragraph it adds
destaque_por_palavra(texto_original, texto_revisado) ==
    LET palavras_orig == Tokens(texto_original)
        palavras_rev == Tokens(texto_revisado)
    IN  <<[text |-> ResultadoVisual, mark |-> "label"]>>
        \o JoinedRuns(OpcodeRuns(get_opcodes(palavras_orig, palavras_rev), 1,
                                 palavras_orig, palavras_rev))

\* original.split(): the words between runs of whitespace; cur is the
\* word being read
RECURSIVE SplitFrom(_, _, _)
SplitFrom(s, n, cur) ==
    IF n > Len(s) THEN (IF cur # <<>> THEN <<cur>> ELSE <<>>)
    ELSE IF s[n] \in Whitespace
         THEN (IF cur # <<>> THEN <<cur>> ELSE <<>>) \o SplitFrom(s, n + 1, <<>>)
         ELSE SplitFrom(s, n + 1, Append(cur, s[n]))
Split(s) == SplitFrom(s, 1, <<>>)

\* ' '.join(words)
RECURSIVE JoinWords(_)
JoinWords(words) ==
    IF words = <<>> THEN <<>>
    ELSE IF Len(words) = 1 THEN words[1]
    ELSE words[1] \o <<" ">> \o JoinWords(Tail(words))

FaltavaPontoFinal == <<"[", "f", "a", "l", "t", "a", "v", "a", " ", "p", "o", "n", "t", "o", " ", "f", "i", "n", "a", "l", "]">>
Faltando == <<"[", "f", "a", "l", "t", "a", "n", "d", "o", "]">>
Removido == <<"[", "r", "e", "m", "o", "v", "i", "d", "o", "]">>
MudancaDetectada == <<"m", "u", "d", "a", "n", "ç", "a", " ", "d", "e", "t", "e", "c", "t", "a", "d", "a">>
TextoAlterado == <<"t", "e", "x", "t", "o", " ", "a", "l", "t", "e", "r", "a", "d", "o">>

\* the first opcode of ops that is not "equal": the loop of
\* _analyze_difference returns at it
RECURSIVE FirstChange(_, _, _, _)
FirstChange(ops, n, a, b) ==
    IF n > Len(ops)
    THEN [error |-> MudancaDetectada, correction |-> TextoAlterado]
    ELSE LET op == ops[n] IN
         IF op.tag = "replace"
         THEN [error |-> JoinWords(Slice(a, op.i1, op.i2)),
               correction |-> JoinWords(Slice(b, op.j1, op.j2))]
         ELSE IF op.tag = "insert"
         THEN [error |-> Faltando,
               correction |-> JoinWords(Slice(b, op.j1, op.j2))]
         ELSE IF op.tag = "delete"
         THEN [error |-> JoinWords(Slice(a, op.i1, op.i2)),
               correction |-> Removido]
         ELSE FirstChange(ops, n + 1, a, b)

\* DocumentProcessor._analyze_difference
analyze_difference(original, current) ==
    IF current = original \o <<".">>
    THEN [error |-> FaltavaPontoFinal, correction |-> <<".">>]
    ELSE FirstChange(get_opcodes(Split(original), Split(current)), 1,
                     Split(original), Split(current))

\* pairs of texts longer than the ones typed character by character
ExamplePairs ==
    {<<<<"a", " ", "b">>, <<"b", " ", "b">>>>,
     <<<<"a", " ", "b">>, <<"a">>>>,
     <<<<"I", "s", "s", "o", " ", "e", "s", "t", "a", " ", "e", "r", "r", "a", "d", "o">>,
       <<"I", "s", "s", "o", " ", "e", "s", "t", "á", " ", "e", "r", "r", "a", "d", "o">>>>}

\* The original text gets one more character.
TypeOriginal ==
    /\ dpc = "build"
    /\ Len(orig_text) < MaxOrigLen
    /\ \E c \in DiffChars : orig_text' = Append(orig_text, c)
    /\ UNCHANGED <<rev_text, all_changes, mark_runs, word_runs, difference, dpc>>
    /\ UNCHANGED <<patchVars, blockVars, clockVars, clientVars, poolVars,
                   smartVars, protectVars, fastVars, replyVars, procVars, compareVars>>

\* The revised text gets one more character.
TypeRevised ==
    /\ dpc = "build"
    /\ Len(rev_text) < MaxRevLen
    /\ \E c \in DiffChars : rev_text' = Append(rev_text, c)
    /\ UNCHANGED <<orig_text, all_changes, mark_runs, word_runs, difference, dpc>>
    /\ UNCHANGED <<patchVars, blockVars, clockVars, clientVars, poolVars,
                   smartVars, protectVars, fastVars, replyVars, procVars, compareVars>>

\* The two texts are one of the example pairs.
LoadExample ==
    /\ dpc = "build"
    /\ orig_text = <<>> /\ rev_text = <<>>
    /\ \E p \in ExamplePairs : orig_text' = p[1] /\ rev_text' = p[2]
    /\ dpc' = "loaded"
    /\ UNCHANGED <<all_changes, mark_runs, word_runs, difference>>
    /\ UNCHANGED <<patchVars, blockVars, clockVars, clientVars, poolVars,
                   smartVars, protectVars, fastVars, replyVars, procVars, compareVars>>

\* changes = self._analyze_all_changes(orig_text, rev_text)
AnalyzeAllChanges ==
    /\ dpc \in {"build", "loaded"}
    /\ all_changes' = analyze_all_changes(orig_text, rev_text)
    /\ dpc' = "analyzed"
    /\ UNCHANGED <<orig_text, rev_text, mark_runs, word_runs, difference>>
    /\ UNCHANGED <<patchVars, blockVars, clockVars, clientVars, poolVars,
                   smartVars, protectVars, fastVars, replyVars, procVars, compareVars>>

\* self._mark_all_changes(comp_para, orig_text, rev_text): comp_para is the
\* paragraph of the copy of the revised document
MarkAllChanges ==
    /\ dpc \in {"build", "loaded"}
    /\ mark_runs' = mark_all_changes(<<[text |-> rev_text, mark |-> "normal"]>>,
                                     orig_text, rev_text)
    /\ dpc' = "marked"
    /\ UNCHANGED <<orig_text, rev_text, all_changes, word_runs, difference>>
    /\ UNCHANGED <<patchVars, blockVars, clockVars, clientVars, poolVars,
                   smartVars, protectVars, fastVars, replyVars, procVars, compareVars>>

\* diff = self._analyze_difference(original, current)
AnalyzeDifference ==
    /\ dpc \in {"build", "loaded"}
    /\ difference' = analyze_difference(orig_text, rev_text)
    /\ dpc' = "differenced"
    /\ UNCHANGED <<orig_text, rev_text, all_changes, mark_runs, word_runs>>
    /\ UNCHANGED <<patchVars, blockVars, clockVars, clientVars, poolVars,
                   smartVars, protectVars, fastVars, replyVars, procVars, compareVars>>

\* adicionar_paragrafo_com_destaque_por_palavra(doc, original, revised)
WordReport ==
    /\ dpc \in {"build", "loaded"}
    /\ word_runs' = destaque_por_palavra(orig_text, rev_text)
    /\ dpc' = "reported"
    /\ UNCHANGED <<orig_text, rev_text, all_changes, mark_runs, difference>>
    /\ UNCHANGED <<patchVars, blockVars, clockVars, clientVars, poolVars,
                   smartVars, protectVars, fastVars, replyVars, procVars, compareVars>>

DiffNext ==
    \/ TypeOriginal
    \/ TypeRevised
    \/ LoadExample
    \/ AnalyzeAllChanges
    \/ MarkAllChanges
    \/ AnalyzeDifference
    \/ WordReport

\* ------------------------------------------------------------------------
\* The pattern classifier: DocumentProcessor._is_really_protected
\* ------------------------------------------------------------------------
LowerLetters == <<"a", "b", "c", "d", "e", "f", "g", "h", "i", "j", "k", "l", "m",
                  "n", "o", "p", "q", "r", "s", "t", "u", "v", "w", "x", "y", "z">>
UpperLetters == <<"A", "B", "C", "D", "E", "F", "G", "H", "I", "J", "K", "L", "M",
                  "N", "O", "P", "Q", "R", "S", "T", "U", "V", "W", "X", "Y", "Z">>
IsLower(c) == \E k \in 1..Len(LowerLetters) : LowerLetters[k] = c
IsUpper(c) == \E k \in 1..Len(UpperLetters) : UpperLetters[k] = c

\* c.upper()
UpperOf(c) ==
    IF IsLower(c)
    THEN UpperLetters[CHOOSE k \in 1..Len(LowerLetters) : LowerLetters[k] = c]
    ELSE c
\* text.upper()
ToUpper(s) == [k \in 1..Len(s) |-> UpperOf(s[k])]

\* text.startswith(prefix)
StartsWith(s, prefix) ==
    Len(prefix) <= Len(s) /\ SubSeq(s, 1, Len(prefix)) = prefix

\* re.match(r'^[a-eA-E][\)\.][\s]', text)
MatchesAlternative(text) ==
    /\ Len(text) >= 3
    /\ text[1] \in {"a", "b", "c", "d", "e", "A", "B", "C", "D", "E"}
    /\ text[2] \in {")", "."}
    /\ text[3] \in Whitespace

\* \b between the characters p and p + 1 of text
WordBoundary(text, p) ==
    (p >= 1 /\ IsWordChar(text[p])) # (p < Len(text) /\ IsWordChar(text[p + 1]))

\* (EF\d{2}[A-Z]{2}\d{2}|EM\d{2}[A-Z]{2}\d{2}) at the offset p (from 0)
CodeAt(text, p) ==
    /\ p + 8 <= Len(text)
    /\ text[p + 1] = "E" /\ text[p + 2] \in {"F", "M"}
    /\ text[p + 3] \in Digits /\ text[p + 4] \in Digits
    /\ IsUpper(text[p + 5]) /\ IsUpper(text[p + 6])
    /\ text[p + 7] \in Digits /\ text[p + 8] \in Digits

\* re.search(r'\b(EF\d{2}[A-Z]{2}\d{2}|EM\d{2}[A-Z]{2}\d{2})\b', text)
SearchesBNCC(text) ==
    \E p \in 0..(Len(text) - 8) :
        CodeAt(text, p) /\ WordBoundary(text, p) /\ WordBoundary(text, p + 8)

Http == <<"h", "t", "t", "p", ":", "/", "/">>
Https == <<"h", "t", "t", "p", "s", ":", "/", "/">>
\* re.search(r'https?://[^\s]+', text)
SearchesLink(text) ==
    \E p \in 0..Len(text) :
        \/ /\ p + Len(Http) < Len(text)
           /\ SubSeq(text, p + 1, p + Len(Http)) = Http
           /\ text[p + Len(Http) + 1] \notin Whitespace
        \/ /\ p + Len(Https) < Len(text)
           /\ SubSeq(text, p + 1, p + Len(Https)) = Https
           /\ text[p + Len(Https) + 1] \notin Whitespace

\* re.match(r'^[A-Z]+,\s+[A-Z][a-z]+', text)
MatchesABNT(text) ==
    \E n \in 1..Len(text), m \in 1..Len(text) :
        /\ n + 1 + m + 2 <= Len(text)
        /\ \A k \in 1..n : IsUpper(text[k])
        /\ text[n + 1] = ","
        /\ \A k \in 1..m : text[n + 1 + k] \in Whitespace
        /\ IsUpper(text[n + 1 + m + 1])
        /\ IsLower(text[n + 1 + m + 2])

Editora == <<"E", "d", "i", "t", "o", "r", "a">>
Gabarito == <<"G", "A", "B", "A", "R", "I", "T", "O">>
Indent == <<" ", " ", " ", " ">>

\* a variant without the test "Gabarito"
is_really_protected_without_gabarito(text) ==
    IF MatchesAlternative(text) THEN TRUE
    ELSE IF SearchesBNCC(text) THEN TRUE
    ELSE IF SearchesLink(text) THEN TRUE
    ELSE IF MatchesABNT(text) /\ Contains(text, Editora) THEN TRUE
    ELSE IF StartsWith(text, Indent) \/ StartsWith(text, <<"\t">>) THEN TRUE
    ELSE FALSE

\* DocumentProcessor._is_really_protected
is_really_protected(text) ==
    IF MatchesAlternative(text) THEN TRUE
    ELSE IF SearchesBNCC(text) THEN TRUE
    ELSE IF SearchesLink(text) THEN TRUE
    ELSE IF MatchesABNT(text) /\ Contains(text, Editora) THEN TRUE
    ELSE IF StartsWith(ToUpper(Strip(text)), Gabarito) THEN TRUE
    ELSE IF StartsWith(text, Indent) \/ StartsWith(text, <<"\t">>) THEN TRUE
    ELSE FALSE

\* the pieces the classified texts are made of
Fragments ==
    {<<"a", ")", " ", "P", "a", "r", "i", "s">>,
     <<"E", "F", "0", "5", "L", "P", "0", "3", " ", "s", "o", "m", "e", "t", "h", "i", "n", "g">>,
     <<"V", "i", "s", "i", "t", " ", "h", "t", "t", "p", "s", ":", "/", "/", "e", "x", "a", "m", "p", "l", "e", ".", "c", "o", "m", " ", "n", "o", "w">>,
     <<"S", "I", "L", "V", "A", ",", " ", "J", "o", "a", "o", ".", " ", "E", "d", "i", "t", "o", "r", "a", " ", "X">>,
     <<"S", "I", "L", "V", "A", ",", " ", "J", "o", "a", "o">>,
     <<"E", "d", "i", "t", "o", "r", "a">>,
     <<"G", "A", "B", "A", "R", "I", "T", "O">>,
     <<"g", "a", "b", "a", "r", "i", "t", "o">>,
     <<" ", " ", " ", " ">>,
     <<" ">>,
     <<"\t">>,
     <<"x">>,
     <<"h", "t", "t", "p", ":", "/", "/">>,
     <<"E", "M", "1", "3", "L", "P", "0", "1">>,
     <<"f", ")", " ">>,
     <<"U", "m", "a", " ", "f", "r", "a", "s", "e", ".">>}

\* The text gets one more piece.
AppendFragment ==
    /\ qpc = "build"
    /\ pfrags < MaxFragments
    /\ \E f \in Fragments : ptext' = ptext \o f
    /\ pfrags' = pfrags + 1
    /\ UNCHANGED <<presult, qpc>>
    /\ UNCHANGED <<patchVars, blockVars, clockVars, clientVars, poolVars,
                   smartVars, diffVars, fastVars, replyVars, procVars, compareVars>>

\* self._is_really_protected(para.text)
Classify ==
    /\ qpc = "build"
    /\ presult' = is_really_protected(ptext)
    /\ qpc' = "classified"
    /\ UNCHANGED <<ptext, pfrags>>
    /\ UNCHANGED <<patchVars, blockVars, clockVars, clientVars, poolVars,
                   smartVars, diffVars, fastVars, replyVars, procVars, compareVars>>

ProtectNext == AppendFragment \/ Classify

\* ------------------------------------------------------------------------
\* _create_fast_blocks on long lists of marked paragraphs
\* (smart_document_processor.py)
\* ------------------------------------------------------------------------
\* how many paragraphs with the same mark follow one another
FastRepeatCounts == {1, target_paragraphs_per_block - 1,
                     target_paragraphs_per_block + 1}

\* The list holds one more group of paragraphs with the same mark.
AddFastParagraphs ==
    /\ fpc = "build"
    /\ fsegs < MaxFastSegments
    /\ \E n \in FastRepeatCounts, prot \in BOOLEAN :
         fparas' = fparas \o [i \in 1..n |->
                       [index |-> Len(fparas) + i, is_protected |-> prot]]
    /\ fsegs' = fsegs + 1
    /\ UNCHANGED <<fk, fblocks, fcurrent, fpc>>
    /\ UNCHANGED <<patchVars, blockVars, clockVars, clientVars, poolVars,
                   smartVars, diffVars, protectVars, replyVars, procVars, compareVars>>

\* "blocks = []; current_block = []" once the marks are set
StartFastBlocks ==
    /\ fpc = "build"
    /\ fk' = 1
    /\ fblocks' = <<>>
    /\ fcurrent' = <<>>
    /\ fpc' = "loop"
    /\ UNCHANGED <<fparas, fsegs>>
    /\ UNCHANGED <<patchVars, blockVars, clockVars, clientVars, poolVars,
                   smartVars, diffVars, protectVars, replyVars, procVars, compareVars>>

\* one pass of "for para in paragraphs"
PackNextParagraph ==
    /\ fpc = "loop"
    /\ fk <= Len(fparas)
    /\ LET st == PackParagraph(fparas[fk], fblocks, fcurrent)
       IN  /\ fblocks' = st.blocks
           /\ fcurrent' = st.current
    /\ fk' = fk + 1
    /\ UNCHANGED <<fparas, fsegs, fpc>>
    /\ UNCHANGED <<patchVars, blockVars, clockVars, clientVars, poolVars,
                   smartVars, diffVars, protectVars, replyVars, procVars, compareVars>>

\* "if current_block: blocks.append(current_block)" and the return
ReturnFastBlocks ==
    /\ fpc = "loop"
    /\ fk > Len(fparas)
    /\ fblocks' = IF fcurrent # <<>> THEN Append(fblocks, fcurrent) ELSE fblocks
    /\ fcurrent' = <<>>
    /\ fpc' = "done"
    /\ UNCHANGED <<fparas, fsegs, fk>>
    /\ UNCHANGED <<patchVars, blockVars, clockVars, clientVars, poolVars,
                   smartVars, diffVars, protectVars, replyVars, procVars, compareVars>>

FastNext ==
    \/ AddFastParagraphs
    \/ StartFastBlocks
    \/ PackNextParagraph
    \/ ReturnFastBlocks

\* ------------------------------------------------------------------------
\* One call of identify_errors_precise and the response it gets: the retry
\* loop without the clock (api_client.py)
\* ------------------------------------------------------------------------
\* identify_errors_precise is called and enters the loop
ReplyCall ==
    /\ rpc = "idle"
    /\ rattempt' = 0
    /\ rcalls' = 0
    /\ rresponse' = NoResponse
    /\ rresult' = <<>>
    /\ rpc' = "loop"
    /\ UNCHANGED <<patchVars, blockVars, clockVars, clientVars, poolVars,
                   smartVars, diffVars, protectVars, fastVars, procVars, compareVars>>

\* an attempt raises: the call goes round again or returns []
ReplyFails ==
    /\ rpc = "loop"
    /\ rattempt < Len(retry_delays)
    /\ rcalls' = rcalls + 1
    /\ \E exc \in RemoteErrors :
         IF Handler(exc) = "none"
         THEN /\ rpc' = "raised"
              /\ UNCHANGED <<rattempt, rresult>>
         ELSE IF Retries(exc, rattempt)
              THEN /\ rattempt' = rattempt + 1
                   /\ UNCHANGED <<rpc, rresult>>
              ELSE /\ rresult' = <<>>
                   /\ rpc' = "returned"
                   /\ UNCHANGED rattempt
    /\ UNCHANGED rresponse
    /\ UNCHANGED <<patchVars, blockVars, clockVars, clientVars, poolVars,
                   smartVars, diffVars, protectVars, fastVars, procVars, compareVars>>

\* an attempt gets a response: it is parsed and the call returns
ReplyArrives ==
    /\ rpc = "loop"
    /\ rattempt < Len(retry_delays)
    /\ rcalls' = rcalls + 1
    /\ \E resp \in Responses :
         /\ rresponse' = resp
         /\ rresult' = IF resp.shape = "no_content" THEN <<>>
                       ELSE ParseResponse(resp, 0)
    /\ rpc' = "returned"
    /\ UNCHANGED rattempt
    /\ UNCHANGED <<patchVars, blockVars, clockVars, clientVars, poolVars,
                   smartVars, diffVars, protectVars, fastVars, procVars, compareVars>>

ReplyNext == ReplyCall \/ ReplyFails \/ ReplyArrives

\* ------------------------------------------------------------------------
\* DocumentProcessor.process_document: the mapping of the texts, the
\* corrections of each block and the integrity check (document_processor.py)
\* ------------------------------------------------------------------------
\* c.lower() for the letters A to Z
LowerOf(c) ==
    IF IsUpper(c)
    THEN LowerLetters[CHOOSE k \in 1..Len(UpperLetters) : UpperLetters[k] = c]
    ELSE c
\* s.lower()
ToLower(s) == [k \in 1..Len(s) |-> LowerOf(s[k])]

\* the markers that open a citation or a poem
CitationMarkers ==
    {<<"l", "e", "i", "a", " ", "o", " ", "t", "e", "x", "t", "o", ":">>,
     <<"o", "b", "s", "e", "r", "v", "e", " ", "o", " ", "p", "o", "e", "m", "a", ":">>,
     <<"l", "e", "i", "a", " ", "o", " ", "p", "o", "e", "m", "a", ":">>,
     <<"t", "e", "x", "t", "o", ":">>,
     <<"p", "o", "e", "m", "a", ":">>,
     <<"l", "e", "i", "a", " ", "a", " ", "s", "e", "g", "u", "i", "r", ":">>,
     <<"l", "e", "i", "a", ":">>,
     <<"o", " ", "p", "o", "e", "m", "a", " ", "a", " ", "s", "e", "g", "u", "i", "r">>,
     <<"o", " ", "t", "e", "x", "t", "o", " ", "a", "b", "a", "i", "x", "o">>,
     <<"a", " ", "p", "o", "e", "s", "i", "a">>}
\* 'poema' in text.lower() or 'poesia' in text.lower()
PoemWords == {<<"p", "o", "e", "m", "a">>, <<"p", "o", "e", "s", "i", "a">>}

\* the tracking variables before the first paragraph
NoTracking == [in_citation |-> FALSE, citation_start |-> 0,
               in_poem |-> FALSE, poem_start |-> 0]

\* in_citation, citation_start, in_poem and poem_start after the two tests
\* on the paragraph at position i (positions count from 1 here), given
\* what they were before it
TrackStep(st, raw, i) ==
    LET text == Strip(raw)
        lower == ToLower(text)
        opened ==
            IF AnyMarkerIn(CitationMarkers, lower)
            THEN IF AnyMarkerIn(PoemWords, lower)
                 THEN [st EXCEPT !.in_poem = TRUE, !.poem_start = i + 1]
                 ELSE [st EXCEPT !.in_citation = TRUE, !.citation_start = i + 1]
            ELSE st
    IN  IF (opened.in_citation \/ opened.in_poem)
           /\ (text = <<>> \/ NumberedStart(text))
        THEN [opened EXCEPT !.in_citation = FALSE, !.in_poem = FALSE]
        ELSE opened

\* the tracking variables after the paragraphs 1..i of d
RECURSIVE TrackAfter(_, _)
TrackAfter(d, i) ==
    IF i = 0 THEN NoTracking ELSE TrackStep(TrackAfter(d, i - 1), d[i], i)

\* is_citation_content and is_poem_content of the paragraph at position i
IsCitationContent(d, i) ==
    TrackAfter(d, i).in_citation /\ i >= TrackAfter(d, i).citation_start
IsPoemContent(d, i) ==
    TrackAfter(d, i).in_poem /\ i >= TrackAfter(d, i).poem_start

verse_max_len == 60
\* is_verse of the paragraph at position i
IsVerse(d, i) ==
    LET text == Strip(d[i]) IN
    \/ IsPoemContent(d, i)
    \/ /\ Len(text) < verse_max_len
       /\ text[Len(text)] # "."
       /\ ~\E k \in 1..Len(text) : text[k] \in {",", ";"}
       /\ i > 1
       /\ Len(Strip(d[i - 1])) < verse_max_len

\* is_protected and protection_reason of the paragraph at position i
ParagraphProtected(d, i) ==
    \/ is_really_protected(d[i])
    \/ IsCitationContent(d, i)
    \/ IsPoemContent(d, i)
    \/ IsVerse(d, i)
ProtectionReason(d, i) ==
    IF IsPoemContent(d, i) \/ IsVerse(d, i) THEN "poema/verso"
    ELSE IF IsCitationContent(d, i) THEN "citação"
    ELSE IF is_really_protected(d[i]) THEN "outro"
    ELSE "None"

\* all_texts: one record per non-blank paragraph, then one per non-blank
\* paragraph of a table cell (cs: the cell paragraphs in the order of the
\* four nested loops).  paragraph_obj is the position of the paragraph
\* among the paragraphs of the document followed by those of the cells;
\* doc_index of a table text is its position among the cell paragraphs.
map_all_texts(d, cs) ==
    LET np == Cardinality(NonBlank(d))
        nc == Cardinality(NonBlank(cs))
    IN  [n \in 1..(np + nc) |->
            IF n <= np
            THEN LET i == PositionOf(d, n)
                 IN  [index |-> n, doc_index |-> i - 1,
                      original_text |-> d[i], current_text |-> d[i],
                      paragraph_obj |-> i, type |-> "paragraph",
                      protected |-> ParagraphProtected(d, i),
                      protection_reason |-> ProtectionReason(d, i)]
            ELSE LET c == PositionOf(cs, n - np)
                 IN  [index |-> n, doc_index |-> c - 1,
                      original_text |-> cs[c], current_text |-> cs[c],
                      paragraph_obj |-> Len(d) + c, type |-> "table",
                      protected |-> is_really_protected(cs[c]),
                      protection_reason |-> "None"]]

\* the positions in all_texts of the processable texts, in order
Processable(ts) ==
    SelectSeq([n \in 1..Len(ts) |-> n], LAMBDA n : ~ts[n].protected)

\* _create_mixed_blocks on the texts at the positions items; a block is the
\* sequence of the positions in all_texts of its texts
RECURSIVE MixedBlocksFrom(_, _, _, _, _)
MixedBlocksFrom(ts, items, bs, cur, size) ==
    IF items = <<>>
    THEN IF cur # <<>> THEN Append(bs, cur) ELSE bs
    ELSE LET text_size == Len(ts[Head(items)].current_text) IN
         IF NeedsNewBlock(size, text_size, Len(cur))
         THEN MixedBlocksFrom(ts, Tail(items),
                              IF cur # <<>> THEN Append(bs, cur) ELSE bs,
                              <<Head(items)>>, text_size)
         ELSE MixedBlocksFrom(ts, Tail(items), bs,
                              Append(cur, Head(items)), size + text_size)
create_mixed_blocks(ts) == MixedBlocksFrom(ts, Processable(ts), <<>>, <<>>, 0)

\* _find_text_in_block: the position in all_texts of the text found, 0 for
\* None
find_text_in_block(ts, block, correction) ==
    LET by_number == {k \in 1..Len(block) :
                        /\ ts[block[k]].index = correction.paragraph
                        /\ Contains(ts[block[k]].current_text, correction.error)}
        by_content == {k \in 1..Len(block) :
                        Contains(ts[block[k]].current_text, correction.error)}
        first(ks) == CHOOSE k \in ks : \A j \in ks : k <= j
    IN  IF by_number # {} THEN block[first(by_number)]
        ELSE IF by_content # {} THEN block[first(by_content)]
        ELSE 0

Demonstratives == {<<"e", "s", "t", "e">>, <<"e", "s", "s", "e">>, <<"e", "s", "t", "a">>, <<"e", "s", "s", "a">>, <<"i", "s", "t", "o">>, <<"i", "s", "s", "o">>}
HttpWord == <<"h", "t", "t", "p">>
QuoteMark == "\""
\* sum(before_text.count(q) for q in ['"', '"', '"'])
QuotesBefore(before_text) ==
    3 * Cardinality({k \in 1..Len(before_text) : before_text[k] = QuoteMark})

\* _should_apply_correction
should_apply_correction(text_data, correction) ==
    LET text == text_data.current_text
        error == correction.error
    IN  /\ Contains(text, error)
        /\ ToLower(error) \notin Demonstratives
        /\ ~(Contains(text, HttpWord) /\ Contains(error, HttpWord))
        /\ ~(/\ Contains(text, <<QuoteMark>>)
             /\ Find(text, error) > -1
             /\ QuotesBefore(Take(text, Find(text, error))) % 2 = 1)
        /\ text_data.protection_reason # "citação/poema"

max_length_change == 20
\* _apply_correction_safe on a paragraph whose text is original_text: what
\* it returns and the text of the paragraph afterwards
apply_correction_safe(original_text, correction) ==
    LET error == correction.error
        fix == correction.correction
        new_text == ReplaceFirst(original_text, error, fix)
    IN  IF error = <<>> \/ fix = <<>> \/ ~Contains(original_text, error)
        THEN [ok |-> FALSE, text |-> original_text]
        ELSE IF Len(new_text) - Len(original_text) > max_length_change
                \/ Len(original_text) - Len(new_text) > max_length_change
        THEN [ok |-> FALSE, text |-> original_text]
        ELSE [ok |-> TRUE, text |-> new_text]

\* correction_record; location is left out
correction_record_of_block(block_idx, text_data, corr, corrected_text) ==
    [block |-> block_idx, text_index |-> block_idx,
     type |-> text_data.type, error |-> corr.error,
     correction |-> corr.correction, error_type |-> "",
     original_text |-> text_data.original_text,
     corrected_text |-> corrected_text]

correction_record(block_idx, text_data, corr, corrected_text) ==
    [block |-> block_idx, text_index |-> text_data.index,
     type |-> text_data.type, error |-> corr.error,
     correction |-> corr.correction, error_type |-> "",
     original_text |-> text_data.original_text,
     corrected_text |-> corrected_text]

\* the record the integrity check appends; block 0 stands for 'auto'
auto_record(text_data, current) ==
    LET diff == analyze_difference(text_data.original_text, current)
    IN  [block |-> 0, text_index |-> text_data.index,
         type |-> text_data.type, error |-> diff.error,
         correction |-> diff.correction, error_type |-> "auto-detectado",
         original_text |-> text_data.original_text,
         corrected_text |-> current]

\* paragraph_obj.text for the paragraph object at position k
ObjText(ps, cs, k) == IF k <= Len(ps) THEN ps[k] ELSE cs[k - Len(ps)]

\* step 7: the records appended for the texts from position n on
RECURSIVE IntegrityFrom(_, _, _, _, _)
IntegrityFrom(ts, n, ps, cs, by_index) ==
    IF n > Len(ts) THEN <<>>
    ELSE LET current == ObjText(ps, cs, ts[n].paragraph_obj)
         IN  (IF current # ts[n].original_text /\ ts[n].index \notin by_index
              THEN <<auto_record(ts[n], current)>> ELSE <<>>)
             \o IntegrityFrom(ts, n + 1, ps, cs, by_index)

\* the paragraph texts the documents are made of: a blank paragraph, a
\* marker line, a numbered marker line, a numbered sentence, and a sentence
\* with a demonstrative and a quotation
ProcSentence == <<"i", "s", "s", "o", " ", "a", " ", "\"", "a", "\"", ".">>
ProcParagraphTexts ==
    {<<>>,
     <<"L", "e", "i", "a", ":">>,
     <<"1", ".", " ", "L", "e", "i", "a", ":">>,
     <<"1", ".", " ", "b", ".">>,
     ProcSentence}
ProcCellTexts == {ProcSentence}
LongFix == [k \in 1..(max_length_change + 2) |-> "b"]
\* what identify_errors_precise returns: valid corrections
ProcCorrections ==
    [paragraph : {1},
     error : {<<"a">>, <<"i", "s", "s", "o">>, <<"z">>},
     correction : {<<"b">>, LongFix}]
NoCorrection ==
    [corr |-> [paragraph |-> 0, error |-> <<>>, correction |-> <<>>],
     unit |-> 0, should |-> FALSE, success |-> FALSE]

\* The document holds one more paragraph.
ProcAddParagraph ==
    /\ dp_pc = "build"
    /\ Len(dp_paras) < MaxProcParas
    /\ \E t \in ProcParagraphTexts : dp_paras' = Append(dp_paras, t)
    /\ UNCHANGED <<dp_cells, dp_orig_paras, dp_orig_cells, dp_all_texts,
                   dp_blocks, dp_block, dp_nproc, dp_all_corrections,
                   dp_by_index, dp_last, dp_pc>>
    /\ UNCHANGED <<patchVars, blockVars, clockVars, clientVars, poolVars,
                   smartVars, diffVars, protectVars, fastVars, replyVars, compareVars>>

\* The tables of the document hold one more cell paragraph.
ProcAddCell ==
    /\ dp_pc = "build"
    /\ Len(dp_cells) < MaxProcCells
    /\ \E t \in ProcCellTexts : dp_cells' = Append(dp_cells, t)
    /\ UNCHANGED <<dp_paras, dp_orig_paras, dp_orig_cells, dp_all_texts,
                   dp_blocks, dp_block, dp_nproc, dp_all_corrections,
                   dp_by_index, dp_last, dp_pc>>
    /\ UNCHANGED <<patchVars, blockVars, clockVars, clientVars, poolVars,
                   smartVars, diffVars, protectVars, fastVars, replyVars, compareVars>>

\* process_document, steps 1 to 5: the copy is made, the texts are mapped
\* and the blocks are created
ProcStart ==
    /\ dp_pc = "build"
    /\ dp_orig_paras' = dp_paras
    /\ dp_orig_cells' = dp_cells
    /\ dp_all_texts' = map_all_texts(dp_paras, dp_cells)
    /\ dp_blocks' = create_mixed_blocks(map_all_texts(dp_paras, dp_cells))
    /\ dp_block' = 1
    /\ dp_nproc' = 0
    /\ dp_all_corrections' = <<>>
    /\ dp_by_index' = {}
    /\ dp_last' = NoCorrection
    /\ dp_pc' = "blocks"
    /\ UNCHANGED <<dp_paras, dp_cells>>
    /\ UNCHANGED <<patchVars, blockVars, clockVars, clientVars, poolVars,
                   smartVars, diffVars, protectVars, fastVars, replyVars, compareVars>>

\* one pass of "for corr in corrections" for the block at hand: the text
\* is looked up, the correction validated, applied and recorded
ProcCorrection ==
    /\ dp_pc = "blocks"
    /\ dp_block <= Len(dp_blocks)
    /\ dp_nproc < MaxProcCorrections
    /\ dp_nproc' = dp_nproc + 1
    /\ \E corr \in ProcCorrections :
         LET unit == find_text_in_block(dp_all_texts, dp_blocks[dp_block], corr)
         IN  IF unit = 0
             THEN /\ dp_last' = [corr |-> corr, unit |-> 0,
                                 should |-> FALSE, success |-> FALSE]
                  /\ UNCHANGED <<dp_paras, dp_cells, dp_all_corrections,
                                 dp_by_index>>
             ELSE LET text_data == dp_all_texts[unit]
                      k == text_data.paragraph_obj
                      should == should_apply_correction(text_data, corr)
                      res == apply_correction_safe(
                                 ObjText(dp_paras, dp_cells, k), corr)
                      success == should /\ res.ok
                  IN  /\ dp_last' = [corr |-> corr, unit |-> unit,
                                     should |-> should, success |-> success]
                      /\ dp_paras' = IF success /\ k <= Len(dp_paras)
                                     THEN [dp_paras EXCEPT ![k] = res.text]
                                     ELSE dp_paras
                      /\ dp_cells' = IF success /\ k > Len(dp_paras)
                                     THEN [dp_cells EXCEPT
                                             ![k - Len(dp_paras)] = res.text]
                                     ELSE dp_cells
                      /\ dp_all_corrections' =
                             IF success
                             THEN Append(dp_all_corrections,
                                         correction_record(dp_block, text_data,
                                                           corr, res.text))
                             ELSE dp_all_corrections
                      /\ dp_by_index' = IF success
                                        THEN dp_by_index \cup {text_data.index}
                                        ELSE dp_by_index
    /\ UNCHANGED <<dp_orig_paras, dp_orig_cells, dp_all_texts, dp_blocks,
                   dp_block, dp_pc>>
    /\ UNCHANGED <<patchVars, blockVars, clockVars, clientVars, poolVars,
                   smartVars, diffVars, protectVars, fastVars, replyVars, compareVars>>

\* the corrections of the block are done: the loop goes to the next block
ProcNextBlock ==
    /\ dp_pc = "blocks"
    /\ dp_block <= Len(dp_blocks)
    /\ dp_block' = dp_block + 1
    /\ UNCHANGED <<dp_paras, dp_cells, dp_orig_paras, dp_orig_cells,
                   dp_all_texts, dp_blocks, dp_nproc, dp_all_corrections,
                   dp_by_index, dp_last, dp_pc>>
    /\ UNCHANGED <<patchVars, blockVars, clockVars, clientVars, poolVars,
                   smartVars, diffVars, protectVars, fastVars, replyVars, compareVars>>

\* steps 7 to 9: the integrity check, then the document and the report
\* are saved
ProcIntegrity ==
    /\ dp_pc = "blocks"
    /\ dp_block > Len(dp_blocks)
    /\ dp_all_corrections' =
           dp_all_corrections
           \o IntegrityFrom(dp_all_texts, 1, dp_paras, dp_cells, dp_by_index)
    /\ dp_pc' = "done"
    /\ UNCHANGED <<dp_paras, dp_cells, dp_orig_paras, dp_orig_cells,
                   dp_all_texts, dp_blocks, dp_block, dp_nproc, dp_by_index,
                   dp_last>>
    /\ UNCHANGED <<patchVars, blockVars, clockVars, clientVars, poolVars,
                   smartVars, diffVars, protectVars, fastVars, replyVars, compareVars>>

ProcNext ==
    \/ ProcAddParagraph
    \/ ProcAddCell
    \/ ProcStart
    \/ ProcCorrection
    \/ ProcNextBlock
    \/ ProcIntegrity

\* ------------------------------------------------------------------------
\* DocumentComparer.create_ultra_comparison on two documents: a document is
\* its paragraphs and its tables, a table its rows, a row its cells, a cell
\* its paragraphs (document_comparer.py)
\* ------------------------------------------------------------------------
\* F(1) \o ... \o F(n)
ConcatOver(F(_), n) ==
    LET f[i \in 0..n] == IF i = 0 THEN <<>> ELSE f[i - 1] \o F(i)
    IN  f[n]

\* "x[i].text if i < len(x) else ''", positions from 1
TextAt(ps, i) == IF i <= Len(ps) THEN ps[i] ELSE <<>>

\* para_num when the loop has dealt with position i
CountedUpTo(ops, rps, i) ==
    Cardinality({j \in 1..i : \/ Strip(TextAt(ops, j)) # <<>>
                              \/ Strip(TextAt(rps, j)) # <<>>})

\* the loop over the paragraphs deals with position i as a change
ParagraphDiffers(ops, rps, i) ==
    /\ Strip(TextAt(ops, i)) # <<>> \/ Strip(TextAt(rps, i)) # <<>>
    /\ TextAt(ops, i) # TextAt(rps, i)

\* the records appended for position i
ParagraphChanges(ops, rps, i) ==
    IF ParagraphDiffers(ops, rps, i)
    THEN LET o_text == TextAt(ops, i)
             r_text == TextAt(rps, i)
             para_num == CountedUpTo(ops, rps, i)
             changes == analyze_all_changes(o_text, r_text)
         IN  [k \in 1..Len(changes) |->
                 changes[k] @@ [paragraph_number |-> para_num,
                                location |-> <<"Parágrafo", para_num>>,
                                page |-> (para_num \div 3) + 1,
                                original_full |-> o_text,
                                revised_full |-> r_text]]
    ELSE <<>>

\* the paragraphs of the comparison document after the loop: the runs of
\* each, a copy of the revised paragraph unless it was marked
ComparisonParagraphs(ops, rps) ==
    [i \in 1..Len(rps) |->
        IF ParagraphDiffers(ops, rps, i)
        THEN mark_all_changes(<<[text |-> rps[i], mark |-> "normal"]>>,
                              TextAt(ops, i), rps[i])
        ELSE <<[text |-> rps[i], mark |-> "normal"]>>]

\* _compare_all_tables, cell (r_idx, c_idx) of table t_idx: the paragraphs
\* it deals with as changes, in order
CellDiffs(orig_cell, rev_cell, t, r, c) ==
    ConcatOver(LAMBDA p :
        LET o_text == TextAt(orig_cell, p)
            r_text == TextAt(rev_cell, p)
        IN  IF o_text # r_text
               /\ (Strip(o_text) # <<>> \/ Strip(r_text) # <<>>)
            THEN <<[table |-> t, row |-> r, cell |-> c, paragraph |-> p,
                    orig_text |-> o_text, rev_text |-> r_text]>>
            ELSE <<>>,
        Max(Len(orig_cell), Len(rev_cell)))
RowDiffs(orig_row, rev_row, t, r) ==
    ConcatOver(LAMBDA c :
        IF c > Len(orig_row) \/ c > Len(rev_row) THEN <<>>
        ELSE CellDiffs(orig_row[c], rev_row[c], t, r, c),
        Max(Len(orig_row), Len(rev_row)))
TableDiffs(orig_table, rev_table, t) ==
    ConcatOver(LAMBDA r :
        IF r > Len(orig_table) \/ r > Len(rev_table) THEN <<>>
        ELSE RowDiffs(orig_table[r], rev_table[r], t, r),
        Max(Len(orig_table), Len(rev_table)))
AllTableDiffs(orig_tables, rev_tables) ==
    ConcatOver(LAMBDA t :
        IF t > Len(orig_tables) \/ t > Len(rev_tables) THEN <<>>
        ELSE TableDiffs(orig_tables[t], rev_tables[t], t),
        Max(Len(orig_tables), Len(rev_tables)))

\* _compare_all_tables: table_changes
compare_all_tables(orig_tables, rev_tables, para_offset) ==
    LET diffs == AllTableDiffs(orig_tables, rev_tables) IN
    ConcatOver(LAMBDA n :
        LET d == diffs[n]
            changes == analyze_all_changes(d.orig_text, d.rev_text)
        IN  [k \in 1..Len(changes) |->
                changes[k] @@ [location |-> <<"Tabela", d.table, d.row, d.cell>>,
                               page |-> (para_offset \div 3) + 1,
                               original_full |-> d.orig_text,
                               revised_full |-> d.rev_text]],
        Len(diffs))

\* the cell paragraphs of the comparison document that were marked, with
\* their runs; the comparison document is a copy of the revised one
MarkedCellParagraphs(orig_tables, rev_tables) ==
    LET diffs == AllTableDiffs(orig_tables, rev_tables) IN
    ConcatOver(LAMBDA n :
        LET d == diffs[n] IN
        IF d.paragraph <= Len(rev_tables[d.table][d.row][d.cell])
        THEN <<[table |-> d.table, row |-> d.row, cell |-> d.cell,
                paragraph |-> d.paragraph,
                runs |-> mark_all_changes(
                            <<[text |-> d.rev_text, mark |-> "normal"]>>,
                            d.orig_text, d.rev_text)]>>
        ELSE <<>>,
        Len(diffs))

\* create_ultra_comparison: all_changes
all_changes_of(orig, rev) ==
    LET total_paragraphs == Max(Len(orig.paragraphs), Len(rev.paragraphs))
    IN  ConcatOver(LAMBDA i : ParagraphChanges(orig.paragraphs,
                                               rev.paragraphs, i),
                   total_paragraphs)
        \o compare_all_tables(orig.tables, rev.tables,
                              CountedUpTo(orig.paragraphs, rev.paragraphs,
                                          total_paragraphs))

\* the paragraph texts and the tables the two documents are made of
CmpTexts == {<<>>, <<" ">>, <<"a">>, <<"a", " ">>}
CmpTables ==
    {<< <<<<<<"a">>>>>> >>,
     << <<<<<<"b">>>>>> >>,
     << <<<<<<"a">>>>, <<<<"b">>>>>> >>,
     << <<<<<<"a">>>>>>, <<<<<<"b">>>>>> >>,
     << <<<<<<"a">>, <<"b">>>>>> >>}
Sides == {"original", "revised"}
EmptyDocument == [paragraphs |-> <<>>, tables |-> <<>>]

\* One of the two documents holds one more paragraph.
CmpAddParagraph(side) ==
    /\ cmp_pc = "build"
    /\ LET d == IF side = "original" THEN cmp_orig ELSE cmp_rev IN
       /\ Len(d.paragraphs) < MaxCmpParas
       /\ \E t \in CmpTexts :
            LET d2 == [d EXCEPT !.paragraphs = Append(d.paragraphs, t)]
            IN  /\ cmp_orig' = IF side = "original" THEN d2 ELSE cmp_orig
                /\ cmp_rev' = IF side = "original" THEN cmp_rev ELSE d2
    /\ UNCHANGED <<cmp_changes, cmp_paragraphs, cmp_cell_marks, cmp_summary,
                   cmp_pc>>
    /\ UNCHANGED <<patchVars, blockVars, clockVars, clientVars, poolVars,
                   smartVars, diffVars, protectVars, fastVars, replyVars,
                   procVars>>

\* One of the two documents holds one more table.
CmpAddTable(side) ==
    /\ cmp_pc = "build"
    /\ LET d == IF side = "original" THEN cmp_orig ELSE cmp_rev IN
       /\ Len(d.tables) < MaxCmpTables
       /\ \E tb \in CmpTables :
            LET d2 == [d EXCEPT !.tables = Append(d.tables, tb)]
            IN  /\ cmp_orig' = IF side = "original" THEN d2 ELSE cmp_orig
                /\ cmp_rev' = IF side = "original" THEN cmp_rev ELSE d2
    /\ UNCHANGED <<cmp_changes, cmp_paragraphs, cmp_cell_marks, cmp_summary,
                   cmp_pc>>
    /\ UNCHANGED <<patchVars, blockVars, clockVars, clientVars, poolVars,
                   smartVars, diffVars, protectVars, fastVars, replyVars,
                   procVars>>

\* create_ultra_comparison: the changes are collected, the comparison
\* document is marked, the summary written, document and report saved
CreateUltraComparison ==
    /\ cmp_pc = "build"
    /\ cmp_changes' = all_changes_of(cmp_orig, cmp_rev)
    /\ cmp_paragraphs' = ComparisonParagraphs(cmp_orig.paragraphs,
                                              cmp_rev.paragraphs)
    /\ cmp_cell_marks' = MarkedCellParagraphs(cmp_orig.tables, cmp_rev.tables)
    /\ cmp_summary' = Len(all_changes_of(cmp_orig, cmp_rev))
    /\ cmp_pc' = "done"
    /\ UNCHANGED <<cmp_orig, cmp_rev>>
    /\ UNCHANGED <<patchVars, blockVars, clockVars, clientVars, poolVars,
                   smartVars, diffVars, protectVars, fastVars, replyVars,
                   procVars>>

CmpNext ==
    \/ \E side \in Sides : CmpAddParagraph(side)
    \/ \E side \in Sides : CmpAddTable(side)
    \/ CreateUltraComparison

\* ------------------------------------------------------------------------
\* Specifications
\* ------------------------------------------------------------------------
\* Before anything is called: no paragraph, no input, nothing returned.
Init ==
    /\ runs = <<>>
    /\ origRuns = <<>>
    /\ error_text = <<>>
    /\ correction_text = <<>>
    /\ ret = FALSE
    /\ ppc = "build"
    /\ texts = <<>>
    /\ segments = 0
    /\ bi = 1
    /\ blocks = <<>>
    /\ current_block = <<>>
    /\ current_size = 0
    /\ bpc = "build"
    /\ now = min_time_between_requests
    /\ last_request_time = 0
    /\ cpc = "idle"
    /\ attempt = 0
    /\ calls = 0
    /\ failed = 0
    /\ slept = <<>>
    /\ gate_sleep = 0
    /\ cresult = <<>>
    /\ ncalls = 0
    /\ wpc = [t \in Tasks |-> "queued"]
    /\ w_current_time = [t \in Tasks |-> 0]
    /\ w_wake = [t \in Tasks |-> 0]
    /\ attempt_start = [t \in Tasks |-> -1]
    /\ doc = <<>>
    /\ orig_doc = <<>>
    /\ all_paragraphs = <<>>
    /\ sblocks = <<>>
    /\ fstate = <<>>
    /\ fresult = <<>>
    /\ freply = <<>>
    /\ collected = {}
    /\ all_corrections = <<>>
    /\ spc = "build"
    /\ orig_text = <<>>
    /\ rev_text = <<>>
    /\ all_changes = <<>>
    /\ mark_runs = <<>>
    /\ word_runs = <<>>
    /\ difference = [error |-> <<>>, correction |-> <<>>]
    /\ dpc = "build"
    /\ ptext = <<>>
    /\ pfrags = 0
    /\ presult = FALSE
    /\ qpc = "build"
    /\ fparas = <<>>
    /\ fsegs = 0
    /\ fk = 0
    /\ fblocks = <<>>
    /\ fcurrent = <<>>
    /\ fpc = "build"
    /\ rpc = "idle"
    /\ rattempt = 0
    /\ rcalls = 0
    /\ rresponse = NoResponse
    /\ rresult = <<>>
    /\ dp_paras = <<>>
    /\ dp_cells = <<>>
    /\ dp_orig_paras = <<>>
    /\ dp_orig_cells = <<>>
    /\ dp_all_texts = <<>>
    /\ dp_blocks = <<>>
    /\ dp_block = 0
    /\ dp_nproc = 0
    /\ dp_all_corrections = <<>>
    /\ dp_by_index = {}
    /\ dp_last = NoCorrection
    /\ dp_pc = "build"
    /\ cmp_orig = EmptyDocument
    /\ cmp_rev = EmptyDocument
    /\ cmp_changes = <<>>
    /\ cmp_paragraphs = <<>>
    /\ cmp_cell_marks = <<>>
    /\ cmp_summary = 0
    /\ cmp_pc = "build"

SpecPatch  == Init /\ [][PatchNext]_vars
SpecBlocks == Init /\ [][BlocksNext]_vars
SpecClient == Init /\ [][ClientNext]_vars /\ WF_vars(ClientNext)
SpecPool   == Init /\ [][PoolNext]_vars
SpecSmart  == Init /\ [][SmartNext]_vars
SpecDiff   == Init /\ [][DiffNext]_vars
SpecProtect == Init /\ [][ProtectNext]_vars
SpecFast   == Init /\ [][FastNext]_vars
SpecReply  == Init /\ [][ReplyNext]_vars
SpecProc   == Init /\ [][ProcNext]_vars
SpecCompare == Init /\ [][CmpNext]_vars

\* ------------------------------------------------------------------------
\* Claims about the patcher (under SpecPatch)
\* ------------------------------------------------------------------------
\* the error span in the text as it was before the call
OrigText    == full_text(origRuns)
OrigErrPos  == Find(OrigText, error_text)
OrigErrEnd  == OrigErrPos + Len(error_text)
OrigRunEnd(i) == RunStart(origRuns, i) + Len(origRuns[i].text)
PatchCalled == ppc = "done"
ErrorFound  == Contains(OrigText, error_text)
\* run i shares at least one character with the error span
OverlapsSpan(i) ==
    RunStart(origRuns, i) < OrigErrEnd /\ OrigRunEnd(i) > OrigErrPos
\* run i lies entirely before or entirely after the error span
OutsideSpan(i) ==
    OrigRunEnd(i) <= OrigErrPos \/ RunStart(origRuns, i) >= OrigErrEnd
\* run i lies entirely inside the error span
InsideSpan(i) ==
    RunStart(origRuns, i) >= OrigErrPos /\ OrigRunEnd(i) <= OrigErrEnd
\* the part of run i before the span, and the part after it
PartBefore(i) ==
    IF RunStart(origRuns, i) < OrigErrPos
    THEN Take(origRuns[i].text, OrigErrPos - RunStart(origRuns, i)) ELSE <<>>
PartAfter(i) ==
    IF OrigRunEnd(i) > OrigErrEnd
    THEN Drop(origRuns[i].text, Max(0, OrigErrEnd - RunStart(origRuns, i)))
    ELSE <<>>

\* C1: whenever the (non-empty) error text occurs in the concatenated run
\* text, after the call the concatenation of the run texts is the original
\* concatenation with the first occurrence of the error replaced by the
\* correction.
C1_ConcatIsFirstOccurrenceReplaced ==
    (PatchCalled /\ error_text # <<>> /\ ErrorFound)
        => full_text(runs) = ReplaceFirst(OrigText, error_text, correction_text)

\* C2: every run that lies entirely before or entirely after the error span
\* has the same text and the same style after the call as before it.
C2_RunsOutsideSpanUntouched ==
    (PatchCalled /\ error_text # <<>> /\ ErrorFound)
        => \A i \in 1..Len(origRuns) : OutsideSpan(i) => runs[i] = origRuns[i]

\* C9: when the error text does not occur in the concatenated run text, the
\* call returns False and the text of every run is as it was.
C9_NotFoundIsNoOp ==
    (PatchCalled /\ ~ErrorFound) => (ret = FALSE /\ runs = origRuns)

\* C9 witness: a call on a paragraph with text in which the error is absent
C9_Witness ==
    /\ PatchCalled
    /\ ~ErrorFound
    /\ Len(error_text) = 2
    /\ Len(origRuns) >= 2
    /\ OrigText # <<>>

\* C10: the full correction is written into the first run that overlaps the
\* error span; every later overlapping run ends with only its part after the
\* span, and a run entirely inside the span ends empty.
C10_CorrectionInFirstOverlappingRun ==
    (PatchCalled /\ error_text # <<>> /\ ErrorFound)
        => \A i \in 1..Len(origRuns) :
             /\ (OverlapsSpan(i) /\ \A j \in 1..(i - 1) : ~OverlapsSpan(j))
                  => runs[i].text = PartBefore(i) \o correction_text \o PartAfter(i)
             /\ (OverlapsSpan(i) /\ \E j \in 1..(i - 1) : OverlapsSpan(j))
                  => runs[i].text = PartAfter(i)
             /\ (InsideSpan(i) /\ \E j \in 1..(i - 1) : OverlapsSpan(j))
                  => runs[i].text = <<>>

\* the error span lies entirely inside run i
SpanInsideRun(i) ==
    RunStart(origRuns, i) <= OrigErrPos /\ OrigErrEnd <= OrigRunEnd(i)

\* C11: when the (non-empty) error span lies entirely inside one run, the
\* call returns True, that run's text becomes prefix + correction + suffix
\* with its style kept, and every other run keeps its text and style.
C11_SpanInsideOneRunChangesThatRunOnly ==
    (PatchCalled /\ error_text # <<>> /\ ErrorFound)
        => \A i \in 1..Len(origRuns) :
             SpanInsideRun(i) =>
               /\ ret = TRUE
               /\ Len(runs) = Len(origRuns)
               /\ runs[i].text = PartBefore(i) \o correction_text \o PartAfter(i)
               /\ runs[i].style = origRuns[i].style
               /\ \A j \in 1..Len(origRuns) : j # i => runs[j] = origRuns[j]

\* C11 witness: a bold run followed by a plain run that holds the whole
\* error between a prefix and a suffix, as "Hello " + "wrold"
C11_Witness ==
    /\ PatchCalled /\ ErrorFound
    /\ Len(origRuns) = 2
    /\ origRuns[1].style = "bold" /\ origRuns[1].text # <<>>
    /\ Len(error_text) = 2 /\ correction_text # <<>>
    /\ SpanInsideRun(2)
    /\ PartAfter(2) # <<>>
    /\ ret = TRUE

\* ------------------------------------------------------------------------
\* Claims about the block builder (under SpecBlocks)
\* ------------------------------------------------------------------------
BlocksBuilt == bpc = "done"
\* the positions of texts that block k holds
UnitsOf(k) == {blocks[k][j] : j \in 1..Len(blocks[k])}
\* every unit is whole in exactly one block
NoUnitSplit ==
    /\ \A i \in 1..Len(texts) : \E k \in 1..Len(blocks) : i \in UnitsOf(k)
    /\ \A k \in 1..Len(blocks) : Cardinality(UnitsOf(k)) = Len(blocks[k])
    /\ \A k1, k2 \in 1..Len(blocks) : k1 # k2 => UnitsOf(k1) \cap UnitsOf(k2) = {}

\* C5 as stated: in every returned batch the sum of the units' lengths is at
\* most max_chunk_size and there are at most 100 units, for every input,
\* and no unit is split between batches.
C5_EveryBlockWithinBothLimits ==
    BlocksBuilt =>
        /\ \A k \in 1..Len(blocks) :
             /\ BlockSize(texts, blocks[k]) <= max_chunk_size
             /\ Len(blocks[k]) <= max_texts_per_block
        /\ NoUnitSplit

\* C5 amended: a batch holds at most 100 units; the sum of its units' lengths
\* is at most max_chunk_size unless the batch is one single unit that is by
\* itself longer than max_chunk_size; no unit is split between batches.
C5_BlocksWithinLimitsButOversizedUnitAlone ==
    BlocksBuilt =>
        /\ \A k \in 1..Len(blocks) :
             /\ Len(blocks[k]) <= max_texts_per_block
             /\ \/ BlockSize(texts, blocks[k]) <= max_chunk_size
                \/ /\ Len(blocks[k]) = 1
                   /\ texts[blocks[k][1]] > max_chunk_size
        /\ NoUnitSplit

\* C5 witness: a result with a full batch of 100 units and a batch made of
\* one oversized unit
C5_Witness ==
    /\ BlocksBuilt
    /\ \E k \in 1..Len(blocks) : Len(blocks[k]) = max_texts_per_block
    /\ \E k \in 1..Len(blocks) :
         Len(blocks[k]) = 1 /\ texts[blocks[k][1]] > max_chunk_size

\* the input is 25 units of 500 characters
TwentyFiveOfFiveHundred == texts = Repeat(500, 25)

\* C18 as stated: 25 units of 500 characters, with the limits of 10000
\* characters and 100 units, give exactly 2 batches, the first of 10 units
\* and the second of the remaining ones, no unit split.
C18_TwoBatchesTenThenRest ==
    (BlocksBuilt /\ TwentyFiveOfFiveHundred) =>
        /\ Len(blocks) = 2
        /\ blocks[1] = [j \in 1..10 |-> j]
        /\ blocks[2] = [j \in 1..15 |-> 10 + j]
        /\ NoUnitSplit

\* C18 amended: they give exactly 2 batches, the first of the 20 units that
\* fill the 10000 characters and the second of the remaining 5, no unit
\* split.
C18_TwoBatchesTwentyThenFive ==
    (BlocksBuilt /\ TwentyFiveOfFiveHundred) =>
        /\ Len(blocks) = 2
        /\ blocks[1] = [j \in 1..20 |-> j]
        /\ BlockSize(texts, blocks[1]) = max_chunk_size
        /\ blocks[2] = [j \in 1..5 |-> 20 + j]
        /\ NoUnitSplit

\* C18 witness: the builder has returned for 25 units of 500 characters
C18_Witness ==
    /\ BlocksBuilt
    /\ TwentyFiveOfFiveHundred
    /\ Len(blocks) = 2

\* block k holds consecutive positions of texts, in order
Consecutive(k) ==
    \A j \in 1..(Len(blocks[k]) - 1) : blocks[k][j + 1] = blocks[k][j] + 1

\* the batches, one after the other, are the input list
BlocksAreTheInputInOrder ==
    /\ texts = <<>> <=> blocks = <<>>
    /\ \A k \in 1..Len(blocks) : blocks[k] # <<>> /\ Consecutive(k)
    /\ blocks # <<>> =>
         /\ blocks[1][1] = 1
         /\ blocks[Len(blocks)][Len(blocks[Len(blocks)])] = Len(texts)
    /\ \A k \in 1..(Len(blocks) - 1) :
         blocks[k + 1][1] = blocks[k][Len(blocks[k])] + 1

\* adding a unit of length text_size to the units block[1..n] would break
\* the character limit, or they are already the maximum number of units
WouldOverflow(block, n, text_size) ==
    \/ SizeOfRange(texts, block, 1, n) + text_size > max_chunk_size
    \/ n >= max_texts_per_block

\* C19: the batches are an order-preserving partition of the input (in
\* order they are the input list, no unit lost or repeated), no batch is
\* empty, and a new batch starts exactly when adding the next unit to the
\* current batch would break the character limit or the current batch
\* already holds the maximum number of units.
C19_OrderPreservingGreedyPartition ==
    BlocksBuilt =>
        /\ BlocksAreTheInputInOrder
        /\ NoUnitSplit
        /\ \A k \in 1..(Len(blocks) - 1) :
             WouldOverflow(blocks[k], Len(blocks[k]), texts[blocks[k + 1][1]])
        /\ \A k \in 1..Len(blocks) :
             \A j \in 2..Len(blocks[k]) :
                 ~WouldOverflow(blocks[k], j - 1, texts[blocks[k][j]])

\* C19 witness: a result with a batch closed at 100 units and a batch
\* closed, with fewer units, by the character limit
C19_Witness ==
    /\ BlocksBuilt
    /\ \E k \in 1..(Len(blocks) - 1) : Len(blocks[k]) = max_texts_per_block
    /\ \E k \in 1..(Len(blocks) - 1) :
         /\ Len(blocks[k]) \in 2..(max_texts_per_block - 1)
         /\ BlockSize(texts, blocks[k]) + texts[blocks[k + 1][1]] > max_chunk_size

\* ------------------------------------------------------------------------
\* Claims about the review client (under SpecClient)
\* ------------------------------------------------------------------------
ClientReturned == cpc = "returned"

\* C6: under any sequence of remote failures the call makes at most
\* len(retry_delays) = 4 remote attempts, never raises to its caller, returns
\* an empty list when every attempt failed, and always comes to its return.
C6_BoundedAttemptsNoRaiseEmptyOnFailure ==
    /\ [](calls <= Len(retry_delays))
    /\ [](cpc # "raised")
    /\ []((ClientReturned /\ failed = calls) => cresult = <<>>)
    /\ [](cpc = "loop" => <>ClientReturned)

\* C6 witness: the call returned after four attempts that all failed
C6_Witness ==
    /\ ClientReturned
    /\ calls = Len(retry_delays)
    /\ failed = calls
    /\ Len(slept) = Len(retry_delays) - 1

\* ------------------------------------------------------------------------
\* Claims about the worker threads (under SpecPool)
\* ------------------------------------------------------------------------
\* tasks t and u are about to access the same field, one of them writing,
\* with no lock in common
RaceBetween(t, u) ==
    /\ t # u
    /\ NextAccess(t).field # "none"
    /\ NextAccess(t).field = NextAccess(u).field
    /\ "write" \in {NextAccess(t).kind, NextAccess(u).kind}
    /\ HeldLocks(t) \cap HeldLocks(u) = {}

\* C8: no object field is read and written by two workers without mutual
\* exclusion (the results collection is filled by the orchestrating thread
\* alone).
C8_NoFieldSharedWithoutMutex ==
    \A t, u \in Tasks : ~RaceBetween(t, u)

\* ------------------------------------------------------------------------
\* Claims about SmartDocumentProcessor.process_document (under SpecSmart)
\* ------------------------------------------------------------------------
SmartDone == spc = "done"

\* the text now, and before the run, of the paragraph record p
TextNow(p) == doc[p.doc_index + 1]
TextBefore(p) == orig_doc[p.doc_index + 1]

\* C3: after a full run, whatever corrections the review service returned,
\* the text of every paragraph marked protected equals its text before the
\* run.
C3_ProtectedTextNeverAltered ==
    SmartDone =>
        \A k \in 1..Len(all_paragraphs) :
            all_paragraphs[k].is_protected
                => TextNow(all_paragraphs[k]) = TextBefore(all_paragraphs[k])

\* the orders in which the futures of the blocks can complete
CompletionOrders ==
    {o \in [BlockIds -> BlockIds] : \A b \in BlockIds : \E i \in BlockIds : o[i] = b}

\* all_corrections when the results arrive in the order o, from its i-th on
RECURSIVE CollectedInOrder(_, _)
CollectedInOrder(o, i) ==
    IF i > Len(sblocks) THEN <<>>
    ELSE fresult[o[i]] \o CollectedInOrder(o, i + 1)

\* the paragraph texts the run ends with when the results arrive in order o
FinalTexts(o) ==
    IF CollectedInOrder(o, 1) # <<>>
    THEN apply_corrections_fast(orig_doc, CollectedInOrder(o, 1))
    ELSE orig_doc

\* C4: the final paragraph texts are the same for every order in which the
\* batches complete: with the same batch results, any completion order ends
\* with the texts this run ended with.
C4_FinalTextsSameForEveryCompletionOrder ==
    SmartDone => \A o \in CompletionOrders : FinalTexts(o) = doc

\* C7: once process_document has been called, a paragraph text is written
\* only by the step of the orchestrating thread that follows the collection
\* loop: every task has finished, every result has been collected, and the
\* step is not a step of a task.
C7_TextsWrittenOnlyAfterAllCollected ==
    [][(spc # "build" /\ doc' # doc) =>
          /\ \A b \in BlockIds : fstate[b] = "finished"
          /\ collected = BlockIds
          /\ fstate' = fstate /\ fresult' = fresult
          /\ spc = "collect" /\ spc' = "done"]_vars

\* C7 witness: a run over two blocks ended with a paragraph rewritten
C7_Witness ==
    /\ SmartDone
    /\ Len(sblocks) >= 2
    /\ collected = BlockIds
    /\ doc # orig_doc

\* ------------------------------------------------------------------------
\* Claims about the comparison of two texts (under SpecDiff)
\* ------------------------------------------------------------------------
Analyzed == dpc = "analyzed"
Marked   == dpc = "marked"
Reported == dpc = "reported"

\* the opcodes ops cover 0..la on the original side and 0..lb on the
\* revised side, each span starting where the one before it ended
CoversBoth(ops, la, lb) ==
    /\ ops = <<>> => (la = 0 /\ lb = 0)
    /\ ops # <<>> =>
         /\ ops[1].i1 = 0 /\ ops[1].j1 = 0
         /\ ops[Len(ops)].i2 = la /\ ops[Len(ops)].j2 = lb
    /\ \A k \in 1..Len(ops) : ops[k].i1 <= ops[k].i2 /\ ops[k].j1 <= ops[k].j2
    /\ \A k \in 1..(Len(ops) - 1) :
         ops[k + 1].i1 = ops[k].i2 /\ ops[k + 1].j1 = ops[k].j2

\* the concatenation of the original-side (side = 1) or revised-side spans
RECURSIVE SpansOf(_, _, _)
SpansOf(ops, s, side) ==
    IF ops = <<>> THEN <<>>
    ELSE (IF side = 1 THEN SubSeq(s, Head(ops).i1 + 1, Head(ops).i2)
          ELSE SubSeq(s, Head(ops).j1 + 1, Head(ops).j2))
         \o SpansOf(Tail(ops), s, side)

\* the concatenated text of the runs of rs whose mark is in marks
RECURSIVE TextOfMarks(_, _)
TextOfMarks(rs, marks) ==
    IF rs = <<>> THEN <<>>
    ELSE (IF Head(rs).mark \in marks THEN Head(rs).text ELSE <<>>)
         \o TextOfMarks(Tail(rs), marks)

\* C12: the opcodes cover both texts without gap or overlap, their
\* original-side spans concatenate to the original and their revised-side
\* spans to the revised text; so the unmarked plus struck runs of
\* _mark_all_changes and of the word-level report (its heading run aside)
\* give the original text, the unmarked plus added runs the revised text.
C12_OpcodesCoverBothTexts ==
    /\ Marked =>
         LET ops == get_opcodes(orig_text, rev_text)
         IN  /\ CoversBoth(ops, Len(orig_text), Len(rev_text))
             /\ SpansOf(ops, orig_text, 1) = orig_text
             /\ SpansOf(ops, rev_text, 2) = rev_text
             /\ TextOfMarks(mark_runs, {"normal", "removed"}) = orig_text
             /\ TextOfMarks(mark_runs, {"normal", "added"}) = rev_text
    /\ Reported =>
         LET ops == get_opcodes(Tokens(orig_text), Tokens(rev_text))
         IN  /\ CoversBoth(ops, Len(Tokens(orig_text)), Len(Tokens(rev_text)))
             /\ Join(SpansOf(ops, Tokens(orig_text), 1)) = orig_text
             /\ Join(SpansOf(ops, Tokens(rev_text), 2)) = rev_text
             /\ TextOfMarks(word_runs, {"normal", "removed"}) = orig_text
             /\ TextOfMarks(word_runs, {"normal", "added"}) = rev_text

\* C12 witness: a marked paragraph with an unchanged span, a struck span
\* and an added span at the end of the texts
C12_Witness ==
    /\ Marked
    /\ \E k \in 1..Len(mark_runs) :
         mark_runs[k].mark = "normal" /\ mark_runs[k].text # <<>>
    /\ \E k \in 1..Len(mark_runs) : mark_runs[k].mark = "removed"
    /\ mark_runs[Len(mark_runs)].mark = "added"

\* the revised text is the original with a full stop, or a comma, added
PeriodAdded == rev_text = orig_text \o <<".">>
CommaAdded  == rev_text = orig_text \o <<",">>

\* C13: for every text A, _analyze_all_changes(A, A + ".") is exactly one
\* record, of punctuation kind, with correction "."; the same with ","; no
\* record made from the diff is returned in either case.
C13_TrailingPeriodOrCommaIsOnePunctuationRecord ==
    /\ (Analyzed /\ PeriodAdded) =>
         /\ Len(all_changes) = 1
         /\ all_changes[1].type = "pontuação"
         /\ all_changes[1].correction = <<".">>
         /\ all_changes[1].position = NoPosition
    /\ (Analyzed /\ CommaAdded) =>
         /\ Len(all_changes) = 1
         /\ all_changes[1].type = "pontuação"
         /\ all_changes[1].correction = <<",">>
         /\ all_changes[1].position = NoPosition

\* C13 witness: the analysis of a two-character text and the same text
\* with a full stop added
C13_Witness ==
    /\ Analyzed
    /\ PeriodAdded
    /\ Len(orig_text) = 2
    /\ Len(all_changes) = 1

\* C14: every record the analysis returns, other than a full-rewrite
\* record, has an error field that is a contiguous part of the original
\* text, the records of the two shortcuts included.
C14_ErrorIsPartOfOriginal ==
    Analyzed =>
        \A k \in 1..Len(all_changes) :
            all_changes[k].type # "mudança geral"
                => Contains(orig_text, all_changes[k].error)

\* the text s with the span of length n at offset pos replaced by new
ReplaceAt(s, pos, n, new) == Take(s, pos) \o new \o Drop(s, pos + n)

\* record r alone, applied to the original at its recorded offset, gives
\* the revised text
RoundTrips(r) ==
    /\ r.position # NoPosition
    /\ ReplaceAt(orig_text, r.position, Len(r.error), r.correction) = rev_text

\* C15 as stated: every record the analysis returns for (original, revised)
\* reproduces the revised text when its error span at its recorded offset
\* in the original is replaced by its correction.
C15_EveryRecordRoundTrips ==
    Analyzed => \A k \in 1..Len(all_changes) : RoundTrips(all_changes[k])

\* every record comes from an opcode and so records an offset
DiffBased == \A k \in 1..Len(all_changes) : all_changes[k].position # NoPosition

\* the text s with the records recs applied at their offsets, last first
RECURSIVE ApplyRecords(_, _)
ApplyRecords(s, recs) ==
    IF recs = <<>> THEN s
    ELSE LET r == recs[Len(recs)]
         IN  ApplyRecords(ReplaceAt(s, r.position, Len(r.error), r.correction),
                          SubSeq(recs, 1, Len(recs) - 1))

\* C15 amended: when the records come from the diff, each records the
\* offset at which its error stands in the original, and replacing every
\* record's error span by its correction, all records together, gives the
\* revised text; so a record alone gives it when it is the only record.
C15_RecordsTogetherReproduceRevised ==
    (Analyzed /\ DiffBased) =>
        /\ \A k \in 1..Len(all_changes) :
             SubSeq(orig_text, all_changes[k].position + 1,
                    all_changes[k].position + Len(all_changes[k].error))
                 = all_changes[k].error
        /\ ApplyRecords(orig_text, all_changes) = rev_text
        /\ Len(all_changes) = 1 => RoundTrips(all_changes[1])

\* C15 witness: an analysis that returned two records made from the diff,
\* neither of which gives the revised text alone
C15_Witness ==
    /\ Analyzed /\ DiffBased
    /\ Len(all_changes) = 2
    /\ ~RoundTrips(all_changes[1]) /\ ~RoundTrips(all_changes[2])
    /\ ApplyRecords(orig_text, all_changes) = rev_text

\* the opcodes of ops that are not "equal", in order
RECURSIVE NonEqual(_)
NonEqual(ops) ==
    IF ops = <<>> THEN <<>>
    ELSE (IF Head(ops).tag # "equal" THEN <<Head(ops)>> ELSE <<>>)
         \o NonEqual(Tail(ops))

\* the kind of record an opcode is reported as
KindOf(tag) ==
    CASE tag = "replace" -> "substituição"
      [] tag = "delete" -> "remoção"
      [] tag = "insert" -> "adição"

\* C16: when neither shortcut applies, the analysis returns one record per
\* non-equal opcode, in opcode order: replace as substitution, delete as
\* deletion, insert as insertion, error and correction being the opcode's
\* spans of the original and the revised text; the records' offsets do not
\* decrease; equal texts give no record and unequal texts at least one.
C16_OneRecordPerNonEqualOpcodeInOrder ==
    (Analyzed /\ ~PeriodAdded /\ ~CommaAdded) =>
        LET ops == NonEqual(get_opcodes(orig_text, rev_text))
        IN  /\ Len(all_changes) = Len(ops)
            /\ \A k \in 1..Len(ops) :
                 /\ all_changes[k].type = KindOf(ops[k].tag)
                 /\ all_changes[k].error
                      = SubSeq(orig_text, ops[k].i1 + 1, ops[k].i2)
                 /\ all_changes[k].correction
                      = SubSeq(rev_text, ops[k].j1 + 1, ops[k].j2)
                 /\ all_changes[k].position = ops[k].i1
                 /\ ops[k].tag = "delete" <=> all_changes[k].correction = <<>>
                 /\ ops[k].tag = "insert" <=> all_changes[k].error = <<>>
            /\ \A k \in 1..(Len(all_changes) - 1) :
                 all_changes[k].position <= all_changes[k + 1].position
            /\ orig_text = rev_text <=> all_changes = <<>>

\* C16 witness: an analysis by the diff that returned a substitution and
\* then an insertion or a deletion further on in the original
C16_Witness ==
    /\ Analyzed /\ ~PeriodAdded /\ ~CommaAdded
    /\ Len(all_changes) = 2
    /\ all_changes[1].type = "substituição"
    /\ all_changes[2].type \in {"adição", "remoção"}
    /\ all_changes[1].position < all_changes[2].position

Differenced == dpc = "differenced"

\* the two texts are words separated by single spaces and differ in one
\* word, the w-th
OneWordReplaced(w) ==
    /\ orig_text = JoinWords(Split(orig_text))
    /\ rev_text = JoinWords(Split(rev_text))
    /\ Len(Split(orig_text)) = Len(Split(rev_text))
    /\ w \in 1..Len(Split(orig_text))
    /\ \A k \in 1..Len(Split(orig_text)) :
         Split(orig_text)[k] # Split(rev_text)[k] <=> k = w

\* C17: when one word of the original is replaced by another, as "esta" by
\* "está" in "Isso esta errado", the analysis gives exactly one substitution
\* whose error is the whole old word and whose correction is the whole new
\* word.
C17_OneWordReplacementIsOneWholeWordRecord ==
    \A w \in 1..Len(orig_text) :
        OneWordReplaced(w) =>
            /\ Analyzed =>
                 /\ Len(all_changes) = 1
                 /\ all_changes[1].type = "substituição"
                 /\ all_changes[1].error = Split(orig_text)[w]
                 /\ all_changes[1].correction = Split(rev_text)[w]
            /\ Differenced =>
                 /\ difference.error = Split(orig_text)[w]
                 /\ difference.correction = Split(rev_text)[w]

\* ------------------------------------------------------------------------
\* Claims about the pattern classifier (under SpecProtect)
\* ------------------------------------------------------------------------
Classified == qpc = "classified"

\* one letter a-e or A-E, then ")" or ".", then whitespace, at the start
QuizOptionShape ==
    /\ Len(ptext) >= 3
    /\ \E k \in 1..5 : ptext[1] \in {LowerLetters[k], UpperLetters[k]}
    /\ ptext[2] \in {")", "."}
    /\ ptext[3] \in Whitespace

\* a word of the text is a curriculum code: EF or EM, two digits, two
\* capital letters, two digits
HasCurriculumCode ==
    \E k \in 1..Len(Tokens(ptext)) :
        LET w == Tokens(ptext)[k]
        IN  /\ Len(w) = 8
            /\ w[1] = "E" /\ w[2] \in {"F", "M"}
            /\ {w[3], w[4], w[7], w[8]} \subseteq Digits
            /\ IsUpper(w[5]) /\ IsUpper(w[6])

\* "http://" or "https://" followed by a character that is not whitespace
HasUrl ==
    \E scheme \in {Http, Https} :
        \E p \in Occurrences(ptext, scheme) :
            \E rest \in {Drop(ptext, p + Len(scheme))} :
                rest # <<>> /\ rest[1] \notin Whitespace

\* capitals, a comma, whitespace, a capitalised name; and the publisher
\* marker somewhere in the text
CitationWithPublisher == MatchesABNT(ptext) /\ Contains(ptext, Editora)

\* the answer-key marker, in either case, after any leading whitespace
StartsWithAnswerKey == StartsWith(ToUpper(LStrip(ptext)), Gabarito)

\* four spaces or a tab at the start
Indented == ptext # <<>> /\ (ptext[1] = "\t" \/ StartsWith(ptext, <<" ", " ", " ", " ">>))

\* C20: _is_really_protected returns true for a text that starts as a quiz
\* option ("a) Paris"), holds a curriculum code ("EF05LP03 something"),
\* holds a URL ("Visit https://example.com now"), has the shape of a
\* citation with a publisher marker, starts with the answer-key marker, or
\* is indented; and returns false for every text with none of the six.
C20_ProtectedExactlyOnTheSixPatterns ==
    Classified =>
        /\ presult <=> (\/ QuizOptionShape
                        \/ HasCurriculumCode
                        \/ HasUrl
                        \/ CitationWithPublisher
                        \/ StartsWithAnswerKey
                        \/ Indented)
        /\ ptext \in {<<"a", ")", " ", "P", "a", "r", "i", "s">>,
                      <<"E", "F", "0", "5", "L", "P", "0", "3", " ", "s", "o", "m", "e", "t", "h", "i", "n", "g">>,
                      <<"V", "i", "s", "i", "t", " ", "h", "t", "t", "p", "s", ":", "/", "/", "e", "x", "a", "m", "p", "l", "e", ".", "c", "o", "m", " ", "n", "o", "w">>,
                      <<"S", "I", "L", "V", "A", ",", " ", "J", "o", "a", "o", ".", " ", "E", "d", "i", "t", "o", "r", "a", " ", "X">>} => presult
        /\ ptext = <<"U", "m", "a", " ", "f", "r", "a", "s", "e", ".">> => ~presult

\* C20 witness: a text that only starts with the answer-key marker, in
\* small letters, was classified as protected
C20_Witness ==
    /\ Classified
    /\ presult
    /\ StartsWithAnswerKey
    /\ ~StartsWith(ptext, Gabarito)
    /\ ~(QuizOptionShape \/ HasCurriculumCode \/ HasUrl
           \/ CitationWithPublisher \/ Indented)

\* ------------------------------------------------------------------------
\* The backward protection scan of SmartDocumentProcessor
\* ------------------------------------------------------------------------
\* the unit at position i of the document carries a signature or reference
MarkerUnit(d, i) ==
    \/ AnyMarkerIn(SignatureMarkers, Strip(d[i]))
    \/ AnyMarkerIn(ReferenceMarkers, Strip(d[i]))
\* the unit at position j ends a scan: blank, numbered, or a reference
StoppingUnit(d, j) ==
    \/ Strip(d[j]) = <<>>
    \/ NumberedStart(Strip(d[j]))
    \/ AnyMarkerIn(ReferenceMarkers, Strip(d[j]))
\* the nearest stopping unit before position i, 0 when there is none
StopBefore(d, i) ==
    LET stops == {j \in 1..(i - 1) : StoppingUnit(d, j)}
    IN  IF stops = {} THEN 0 ELSE CHOOSE j \in stops : \A k \in stops : k <= j
\* the mark the unit at position i has when the blocks are made
MarkedProtected(i) == all_paragraphs[ParaNum(orig_doc, i)].is_protected
\* the mark is the scan's: the extraction had not set it
MarkedByScan(i) == MarkedProtected(i) /\ ~ExtractProtected(orig_doc, i)

\* C21: for every unit with a signature or reference marker, that unit and
\* all units before it back to, not including, the nearest blank, numbered
\* or reference unit are marked protected, and the scan marks no unit
\* outside such a stretch.
C21_ScanProtectsBackToNearestStop ==
    spc # "build" =>
        /\ \A i \in NonBlank(orig_doc) :
               MarkerUnit(orig_doc, i) =>
                   \A k \in (StopBefore(orig_doc, i) + 1)..i :
                       k \in NonBlank(orig_doc) => MarkedProtected(k)
        /\ \A k \in NonBlank(orig_doc) :
               MarkedByScan(k) =>
                   \E i \in NonBlank(orig_doc) :
                       /\ MarkerUnit(orig_doc, i)
                       /\ StopBefore(orig_doc, i) < k
                       /\ k <= i

\* ------------------------------------------------------------------------
\* The paragraph a reported correction is applied to
\* ------------------------------------------------------------------------
\* the position in the document of the paragraph labelled [P n]
Labelled(n) == PositionOf(orig_doc, n)
\* block b was sent the paragraph labelled [P n]
InBatch(b, n) == \E k \in 1..Len(sblocks[b]) : sblocks[b][k] = n
\* the review service named [P n] in a correction it reported for block b
ReportedFor(b, n) ==
    \E k \in 1..Len(freply[b]) : freply[b][k].paragraph = n

\* C26: a paragraph is altered only if a correction was reported for its
\* own label [P n] by the batch that held it.
C26_CorrectionGoesToTheLabelledParagraphOfItsBatch ==
    spc = "done" =>
        \A n \in 1..Cardinality(NonBlank(orig_doc)) :
            doc[Labelled(n)] # orig_doc[Labelled(n)] =>
                \E b \in BlockIds : InBatch(b, n) /\ ReportedFor(b, n)

\* ------------------------------------------------------------------------
\* Claims about the blocks of _create_fast_blocks (under SpecFast)
\* ------------------------------------------------------------------------
FastBuilt == fpc = "done"
\* the unprotected paragraphs, in document order
Unprotected == SelectSeq(fparas, LAMBDA p : ~p.is_protected)
\* the number of paragraphs in the blocks before block b
RECURSIVE FastOffset(_)
FastOffset(b) == IF b <= 1 THEN 0 ELSE FastOffset(b - 1) + Len(fblocks[b - 1])

\* C30: the blocks hold no protected paragraph, hold every unprotected
\* paragraph exactly once in document order, are never empty, hold at most
\* target_paragraphs_per_block paragraphs each, and never hold two
\* paragraphs with a protected paragraph between them.
C30_BlocksPartitionTheUnprotectedParagraphs ==
    FastBuilt =>
        /\ \A b \in 1..Len(fblocks) :
               /\ fblocks[b] # <<>>
               /\ Len(fblocks[b]) <= target_paragraphs_per_block
               /\ \A k \in 1..Len(fblocks[b]) :
                      /\ ~fparas[fblocks[b][k]].is_protected
                      /\ FastOffset(b) + k <= Len(Unprotected)
                      /\ fblocks[b][k] = Unprotected[FastOffset(b) + k].index
               /\ \A j \in fblocks[b][1]..fblocks[b][Len(fblocks[b])] :
                      ~fparas[j].is_protected
        /\ FastOffset(Len(fblocks) + 1) = Len(Unprotected)

\* C30 witness: a list with protected paragraphs and more than a block's
\* worth of unprotected ones in a row was cut into blocks, one of them full
C30_Witness ==
    /\ FastBuilt
    /\ \E j \in 1..Len(fparas) : fparas[j].is_protected
    /\ \E b \in 1..Len(fblocks) :
           /\ Len(fblocks[b]) = target_paragraphs_per_block
           /\ b < Len(fblocks)
           /\ fblocks[b + 1][1] = fblocks[b][Len(fblocks[b])] + 1

\* ------------------------------------------------------------------------
\* Claims about the handling of a response (under SpecReply)
\* ------------------------------------------------------------------------
\* the entries of the object's corrections array that pass the validation
ValidEntriesOf(resp) ==
    SelectSeq(resp.corrections,
              LAMBDA c : /\ c.paragraph # 0
                         /\ c.error # <<>>
                         /\ c.correction # <<>>
                         /\ c.error # c.correction)
\* the returned list is made of the entries es, in order
ReturnsEntries(es) ==
    /\ Len(rresult) = Len(es)
    /\ \A k \in 1..Len(es) :
           /\ rresult[k].paragraph = es[k].paragraph
           /\ rresult[k].error = es[k].error
           /\ rresult[k].correction = es[k].correction

\* C23: a response that is malformed JSON or holds no JSON object gives
\* zero corrections, without raising and without another remote attempt; a
\* response with prose around a valid JSON object gives the corrections of
\* that object; every correction returned has a paragraph index, an error
\* and a correction, and its error differs from its correction.
C23_ResponsesParsedTolerantly ==
    /\ rpc # "raised"
    /\ rresponse # NoResponse => rpc = "returned"
    /\ rresponse.shape \in {"malformed_object", "prose_malformed", "no_json"}
           => rresult = <<>>
    /\ rresponse.shape \in {"prose_object", "braced_prose_object"}
           => ReturnsEntries(ValidEntriesOf(rresponse))
    /\ \A k \in 1..Len(rresult) :
           /\ rresult[k].paragraph # 0
           /\ rresult[k].error # <<>>
           /\ rresult[k].correction # <<>>
           /\ rresult[k].error # rresult[k].correction

\* ------------------------------------------------------------------------
\* Claims about the waits between attempts (under SpecClient)
\* ------------------------------------------------------------------------
\* C24: within one call a delay is slept before every retry, and each
\* delay is strictly greater than the one slept before it, whatever the
\* failures were.
C24_DelaysStrictlyIncrease ==
    /\ Len(slept) = attempt
    /\ \A k \in 1..Len(slept) : slept[k] > 0
    /\ \A k \in 1..(Len(slept) - 1) : slept[k + 1] > slept[k]

\* ------------------------------------------------------------------------
\* Claims about the pace of the worker threads (under SpecPool)
\* ------------------------------------------------------------------------
\* C28: whatever the interleaving of the worker threads, the first remote
\* attempts of any two calls start at least min_time_between_requests
\* apart.
C28_FirstAttemptsSpacedApart ==
    \A t, u \in Tasks :
        (t # u /\ attempt_start[t] >= 0 /\ attempt_start[u] >= 0) =>
            \/ attempt_start[t] - attempt_start[u] >= min_time_between_requests
            \/ attempt_start[u] - attempt_start[t] >= min_time_between_requests

\* ------------------------------------------------------------------------
\* Claims about DocumentProcessor.process_document (under SpecProc)
\* ------------------------------------------------------------------------
\* the text unit of the non-blank paragraph at position k
UnitOfParagraph(k) == dp_all_texts[ParaNum(dp_orig_paras, k)]
\* the paragraph at position m holds a citation or poem marker
MarkerParagraph(m) ==
    AnyMarkerIn(CitationMarkers, ToLower(Strip(dp_orig_paras[m])))
\* the paragraph at position j is blank or starts a numbered question
EndsCitation(j) ==
    \/ Strip(dp_orig_paras[j]) = <<>>
    \/ NumberedStart(Strip(dp_orig_paras[j]))

\* C29: after a paragraph with a citation or poem marker, whatever that
\* paragraph starts with, every non-blank paragraph that follows, up to the
\* next blank or numbered paragraph, is protected; the marker paragraph
\* itself is not protected by this rule.
C29_ParagraphsAfterMarkerProtected ==
    dp_pc # "build" =>
        /\ \A m \in 1..Len(dp_orig_paras) :
               MarkerParagraph(m) =>
                   \A k \in (m + 1)..Len(dp_orig_paras) :
                       (\A j \in (m + 1)..k : ~EndsCitation(j))
                           => UnitOfParagraph(k).protected
        /\ \A m \in NonBlank(dp_orig_paras) :
               (MarkerParagraph(m) /\ \A j \in 1..(m - 1) : ~MarkerParagraph(j))
                   => /\ ~IsCitationContent(dp_orig_paras, m)
                      /\ ~IsPoemContent(dp_orig_paras, m)

\* the text of the paragraph of text unit u, as it is now
UnitText(u) == ObjText(dp_paras, dp_cells, dp_all_texts[u].paragraph_obj)
\* the number of quote marks before the first occurrence of error in text
QuoteMarksBefore(text, error) ==
    Cardinality({k \in 1..Find(text, error) : text[k] = QuoteMark})
\* one of the four cases in which a correction is to be rejected, for a
\* paragraph whose text is text
MustReject(text, corr) ==
    \/ ~Contains(text, corr.error)
    \/ ToLower(corr.error) \in Demonstratives
    \/ /\ Contains(text, corr.error)
       /\ QuoteMarksBefore(text, corr.error) % 2 = 1
    \/ /\ Contains(text, corr.error)
       /\ LET new_len == Len(ReplaceFirst(text, corr.error, corr.correction))
          IN  \/ new_len - Len(text) > max_length_change
              \/ Len(text) - new_len > max_length_change

\* C22: a correction whose error is absent from the current text of its
\* unit, or is a protected demonstrative, or lies inside a quotation, or
\* whose replacement changes the length by more than 20 characters, is
\* rejected: the paragraph keeps its text, no record is added, nothing is
\* raised.
C22_RejectedCorrectionsChangeNothing ==
    [][(/\ dp_nproc' = dp_nproc + 1
        /\ dp_last'.unit # 0
        /\ MustReject(UnitText(dp_last'.unit), dp_last'.corr))
       => /\ dp_paras' = dp_paras
          /\ dp_cells' = dp_cells
          /\ dp_all_corrections' = dp_all_corrections
          /\ dp_pc' = "blocks"]_vars

\* the text unit u has an entry in the list of corrections
HasEntry(u) ==
    \E r \in 1..Len(dp_all_corrections) :
        dp_all_corrections[r].text_index = dp_all_texts[u].index

\* C27: after the integrity check every text unit whose paragraph text
\* differs from its original text has an entry in the list of corrections,
\* and a record is added by the loop over the corrections only when
\* _apply_correction_safe returned True for it.
C27_EveryChangeReportedAndRecordsFollowSuccess ==
    /\ [](dp_pc = "done" =>
             \A u \in 1..Len(dp_all_texts) :
                 UnitText(u) # dp_all_texts[u].original_text => HasEntry(u))
    /\ [][(dp_pc = "blocks" /\ dp_pc' = "blocks"
           /\ dp_all_corrections' # dp_all_corrections)
          => /\ dp_last'.success
             /\ Len(dp_all_corrections') = Len(dp_all_corrections) + 1
             /\ dp_all_corrections'[Len(dp_all_corrections')].corrected_text
                    = ObjText(dp_paras', dp_cells',
                              dp_all_texts[dp_last'.unit].paragraph_obj)]_vars

\* C27 witness: the run ended with the second text unit changed and
\* reported, after a correction that was rejected
C27_Witness ==
    /\ dp_pc = "done"
    /\ Len(dp_all_texts) >= 2
    /\ UnitText(2) # dp_all_texts[2].original_text
    /\ HasEntry(2)
    /\ dp_last.unit # 0
    /\ ~dp_last.success

\* ------------------------------------------------------------------------
\* Claims about DocumentComparer.create_ultra_comparison (under SpecCompare)
\* ------------------------------------------------------------------------
Compared == cmp_pc = "done"
\* the change records of body paragraphs, and those of cell (r, c) of table t
ParagraphRecords ==
    {k \in 1..Len(cmp_changes) : "paragraph_number" \in DOMAIN cmp_changes[k]}
CellRecords(t, r, c) ==
    {k \in 1..Len(cmp_changes) :
        /\ "paragraph_number" \notin DOMAIN cmp_changes[k]
        /\ cmp_changes[k].location = <<"Tabela", t, r, c>>}
\* what document d holds as paragraph p of cell (r, c) of table t
CellParagraph(d, t, r, c, p) ==
    IF /\ t <= Len(d.tables)
       /\ r <= Len(d.tables[t])
       /\ c <= Len(d.tables[t][r])
       /\ p <= Len(d.tables[t][r][c])
    THEN [present |-> TRUE, text |-> d.tables[t][r][c][p]]
    ELSE [present |-> FALSE, text |-> <<>>]
\* the coordinates at which either document holds a cell paragraph
CellCoordinates ==
    UNION {{<<t, r, c, p>> :
               t \in 1..Len(d.tables), r \in 1..2, c \in 1..2, p \in 1..2}
           : d \in {cmp_orig, cmp_rev}}

\* C25: for every paragraph index at which the two texts differ, and for
\* every table cell paragraph at which the two documents differ, at least
\* one change record is emitted; this includes differences of whitespace
\* only and tables, rows or cells that only one document has.
C25_EveryDifferenceHasAChangeRecord ==
    Compared =>
        /\ \A i \in 1..Max(Len(cmp_orig.paragraphs), Len(cmp_rev.paragraphs)) :
               TextAt(cmp_orig.paragraphs, i) # TextAt(cmp_rev.paragraphs, i)
                   => \E k \in ParagraphRecords :
                          /\ cmp_changes[k].original_full
                                 = TextAt(cmp_orig.paragraphs, i)
                          /\ cmp_changes[k].revised_full
                                 = TextAt(cmp_rev.paragraphs, i)
        /\ \A x \in CellCoordinates :
               CellParagraph(cmp_orig, x[1], x[2], x[3], x[4])
                   # CellParagraph(cmp_rev, x[1], x[2], x[3], x[4])
                   => CellRecords(x[1], x[2], x[3]) # {}
====
